---- MODULE Spec2Model ----
(***************************************************************************)
(* Model of the topic bridge of src/telegram.js: the identifier <-> thread *)
(* registry (topicMapping / reverseTopicMapping), getOrCreateTopic,        *)
(* sendToTelegramWithRetry, the startup load and the forwardToTelegram     *)
(* tasks that drive them.                                                  *)
(*                                                                         *)
(* Every inbound source message is one asynchronous task.  A task runs     *)
(* without interruption between two awaits of an external call (thread     *)
(* creation, send, pin, store write); each action below is "the response   *)
(* of the awaited call arrives and the task runs up to its next await".    *)
(* Awaits that only yield to the microtask queue (getContactName) and the  *)
(* read-only profile lookups of getUserInfo are folded into the            *)
(* surrounding step: they neither read nor write the shared maps.          *)
(***************************************************************************)
EXTENDS Integers, Sequences, FiniteSets, TLC

\* ---------------------------------------------------------------- bounds
NumTasks == 2
MaxCreated == 2
NumEvents == 2
MaxCalls == 2

Tasks == 1..NumTasks
\* thread 1 is the thread of an earlier session; createForumTopic assigns
\* the ids from 2 on
Threads == 1..(MaxCreated + 1)
NoThread == 0
Absent == "<absent>"
None == <<>>

\* ------------------------------------------------------------ identifiers
\* "" is what the individual branch derives from a sender address without
\* any digit; it is a falsy string in the guards of the code.
Idents == {"", "15551234567", "group_g1"}

StartsWithGroup(identifier) == identifier = "group_g1"

Truthy(s) == s # ""

\* m.name of an inbound message: absent or "Alice"
Names == {"", "Alice"}

\* `Contact ${whatsappNumber}`
FallbackLabel(number) ==
  IF number = "15551234567" THEN "Contact 15551234567" ELSE "Contact "

\* forwardToTelegram: displayName of the conversation; a group without
\* subject is labelled by its id, an individual by m.name or the fallback
DisplayNameOf(identifier, name) ==
  IF StartsWithGroup(identifier) THEN "Group g1"
  ELSE IF Truthy(name) THEN name ELSE FallbackLabel(identifier)

GetContactName_Number(cache, number, fallbackName) == number

\* getContactName(whatsappNumber, fallbackName): the cached name wins
GetContactName(cache, number, fallbackName) ==
  IF Truthy(cache[number]) THEN cache[number]
  ELSE IF Truthy(fallbackName) THEN fallbackName ELSE FallbackLabel(number)

\* m.body: a text message has one, a contact or sticker message has none
BodyOf(type) == IF type = "text" THEN "hi" ELSE ""

GroupText_Plain(name, body) == <<name, ": ", body>>

\* messageText of the group branch (no media in these messages)
GroupText(name, body) ==
  IF Truthy(body) THEN <<"(bust) **", name, "**: ", body>>
  ELSE <<"(bust) **", name, "**: ", "_sent a message_">>

\* the text forwardToTelegram hands to sendToTelegramWithRetry
MessageText(identifier, name, type) ==
  IF StartsWithGroup(identifier)
  THEN IF type = "sticker"
       THEN <<"(bust) **", name, "**: ", "_sent media_">>
       ELSE GroupText(name, BodyOf(type))
  ELSE <<BodyOf(type)>>

\* ---------------------------------------------------------- error messages
\* An error message is the sequence of its words; includes() is a search
\* for a contiguous run of words.
ErrThreadNotFound == <<"message", "thread", "not", "found">>
ErrTimeout == <<"request", "timed", "out">>
ErrAlreadyExists == <<"name", "already", "exists">>
ErrDuplicateKey == <<"duplicate", "key">>

SendErrors == {ErrThreadNotFound, ErrTimeout}
CreateErrors == {ErrAlreadyExists, ErrTimeout}
StoreErrors == {ErrDuplicateKey, ErrTimeout}

Includes(msg, pat) ==
  \E n \in 1..(Len(msg) - Len(pat) + 1) : SubSeq(msg, n, n + Len(pat) - 1) = pat

IsTopicError_Any(msg) == TRUE

IsTopicError(msg) ==
  \/ Includes(msg, <<"thread">>)
  \/ Includes(msg, <<"topic">>)
  \/ Includes(msg, <<"not", "found">>)

IsDuplicateError(msg) ==
  \/ Includes(msg, <<"duplicate">>)
  \/ Includes(msg, <<"already", "exists">>)

\* the guard of the recreation in sendToTelegramWithRetry
ShouldRecreate(identifier, displayName, thread, msg) ==
  /\ Truthy(identifier)
  /\ Truthy(displayName)
  /\ thread # NoThread
  /\ IsTopicError(msg)

RetryThread_Old(newTopicId, oldThread) == oldThread

\* options.message_thread_id = newTopicId
RetryThread(newTopicId, oldThread) == newTopicId

VARIABLES
  createTopics,          \* config.telegram.createTopics
  topicMapping,          \* identifier -> thread id (NoThread: no entry)
  reverseTopicMapping,   \* thread id -> identifier (Absent: no entry)
  statusTopicId,
  callTopicId,
  pinnedMessages,        \* thread id -> info message pinned
  store,                 \* persisted rows identifier -> thread id
  loadPc,                \* loadTopicMappings: "pending", "done"
  loaded,                \* rows the pending getTelegramTopics() resolves to
  nextThread,            \* next thread id the destination surface assigns
  task,                  \* the forwardToTelegram tasks
  lastCall,              \* per identifier: last getOrCreateTopic return
  contactsCache,         \* number -> cached contact name ("": no entry)
  chatMessageMapping,    \* destination message id -> source message id
  statusMessageMapping,  \* destination message id -> status id
  event,                 \* the forwardStatusToTelegram / forwardCallToTelegram tasks
  inbound,               \* the handleTelegramMessage task
  spCreates,             \* per special kind: createForumTopic requests so far
  sendConfirmation,      \* config.telegram.sendConfirmation
  ffmpegAvailable,       \* the capability flag probed at module load
  forwardMedia,          \* config.telegram.forwardMedia
  scratch,               \* the temp directory: present or not, and its files
  conv,                  \* the last call of a transcoding function
  route                  \* an address sent through both derivations

\* the media configuration, the scratch directory and the records of the
\* transcoding and address functions
auxVars == <<ffmpegAvailable, forwardMedia, scratch, conv, route>>

vars == <<createTopics, topicMapping, reverseTopicMapping, statusTopicId,
          callTopicId, pinnedMessages, store, loadPc, loaded, nextThread,
          task, lastCall, contactsCache, chatMessageMapping,
          statusMessageMapping, event, inbound, spCreates,
          sendConfirmation, auxVars>>

\* the state only the status, call and destination-message handlers use
bridgeVars == <<statusMessageMapping, event, inbound, spCreates,
                sendConfirmation, auxVars>>

\* the state of the handlers of source messages
forwardVars == <<topicMapping, reverseTopicMapping, pinnedMessages, store,
                 task, lastCall, contactsCache, chatMessageMapping>>

\* destination message ids are assigned by the destination surface, a new
\* one for every message; each is named here by the request that produced
\* it: the text send and the contact send of task k
TextMsgId(k) == 2 * k - 1
ContactMsgId(k) == 2 * k
\* ... the media send of task k; a message is a contact or a medium
MediaMsgId(k) == 2 * k
\* ... and the send of status event e
StatusMsgId(e) == 2 * NumTasks + e
MsgIds == 1..(2 * NumTasks + NumEvents)
NoMsg == 0
\* m.id of the message task k forwards
SourceMsgId(k) == k

Correlate_Evict(map, d, s) ==
  [x \in DOMAIN map |-> IF x = d THEN s ELSE NoMsg]

\* chatMessageMapping[sentMessage.message_id] = m.id
Correlate(map, d, s) == [map EXCEPT ![d] = s]

NoCall == [ret |-> NoThread, n |-> 0]

IdleTask ==
  [pc |-> "idle", identifier |-> "", type |-> "text", animated |-> FALSE,
   name |-> "",
   topicId |-> NoThread, phase |-> "none", caller |-> "fwd", topicName |-> "",
   createCount |-> 0, first |-> "none", created |-> NoThread,
   saved |-> FALSE, saveOk |-> FALSE, info |-> FALSE, ret |-> NoThread,
   prev |-> NoCall, startMapped |-> NoThread, startCached |-> "",
   thread |-> NoThread, sends |-> 0, firstErr |-> None, retryErr |-> None,
   raised |-> None, inval |-> 0, gocCalls |-> 0, newTopicId |-> NoThread]

DoneTask == [IdleTask EXCEPT !.pc = "done"]

FwdCatch_Rethrow(r) == [r EXCEPT !.pc = "raised"]

\* the outer catch of forwardToTelegram logs the error; the handler returns
FwdCatch(r) == DoneTask

\* the locals of a finished getOrCreateTopic call go out of scope
GocLeave(r) ==
  [r EXCEPT !.createCount = 0, !.first = "none", !.created = NoThread,
            !.saved = FALSE, !.info = FALSE, !.ret = NoThread,
            !.prev = NoCall, !.startMapped = NoThread, !.caller = "fwd",
            !.topicName = "", !.saveOk = FALSE, !.startCached = ""]

\* the locals of a finished sendToTelegramWithRetry call go out of scope
SwrLeave(r) ==
  [r EXCEPT !.phase = "none", !.thread = NoThread, !.sends = 0,
            !.firstErr = None, !.retryErr = None, !.raised = None,
            !.inval = 0, !.gocCalls = 0, !.newTopicId = NoThread]

\* --------------------------------------------------------- media transcoder
\* media buffers handed to the transcoding functions, and the buffers the
\* transcoder makes of them
Bytes == {<<"raw", "b1">>, <<"raw", "b2">>}
Transcoded(format, b) == <<format, b[2]>>

\* Date.now() at the calls of the transcoding functions; a file left by an
\* earlier process carries the stamp 0
Stamps == 0..MaxCalls

\* path.join(tempDir, `input_${Date.now()}.${ext}`) and the output file
InputFile(stamp, ext) == <<"input", stamp, ext>>
OutputFile(stamp, ext) == <<"output", stamp, ext>>

\* the temp directory is absent, or present and empty, or present with a
\* file of an earlier process
EmptyScratch == [dir |-> FALSE, files |-> {}]
ScratchStates ==
  {EmptyScratch, [dir |-> TRUE, files |-> {}],
   [dir |-> TRUE, files |-> {OutputFile(0, "mp4")}]}

ErrFFmpegUnavailable ==
  <<"FFmpeg", "not", "available", "for", "animated", "sticker", "conversion">>
ErrMkdir == <<"EACCES", "permission", "denied", "mkdir">>
ErrWrite == <<"ENOSPC", "no", "space", "left", "on", "device", "write">>
ErrExec == <<"Command", "failed", "ffmpeg">>
ErrRead == <<"ENOENT", "no", "such", "file", "open">>

\* what the file-system and process calls of one conversion do: mkdirSync
\* and readFileSync succeed or throw; writeFileSync and execSync succeed,
\* or throw leaving no file, or throw leaving a partial file
FsOutcomes ==
  [mkdir : {"ok", "fail"}, write : {"ok", "fail", "partial"},
   exec : {"ok", "fail", "partial"}, read : {"ok", "fail"}]

Unlink_Keep(files, f) == files

\* fs.unlinkSync(f)
Unlink(files, f) == files \ {f}

\* the result of a call: the scratch directory after it, whether it
\* returned or threw, the bytes returned or the error thrown, and the
\* numbers of writeFileSync and execSync calls it made
ConvReturn(fs, bytes, writes, execs) ==
  [fs |-> fs, status |-> "returned", ret |-> bytes, err |-> None,
   writes |-> writes, execs |-> execs]
ConvThrow(fs, err, writes, execs) ==
  [fs |-> fs, status |-> "threw", ret |-> None, err |-> err,
   writes |-> writes, execs |-> execs]

\* the try block of the three functions up to its return or its throw:
\* writeFileSync(inputFile), execSync(ffmpeg ...), readFileSync(outputFile),
\* unlinkSync of both files
TryTranscode(files, inF, outF, o) ==
  IF o.write # "ok"
  THEN [files |-> IF o.write = "partial" THEN files \cup {inF} ELSE files,
        err |-> ErrWrite, writes |-> 1, execs |-> 0]
  ELSE IF o.exec # "ok"
  THEN [files |-> IF o.exec = "partial" THEN files \cup {inF, outF}
                  ELSE files \cup {inF},
        err |-> ErrExec, writes |-> 1, execs |-> 1]
  ELSE IF o.read # "ok"
  THEN [files |-> files \cup {inF, outF}, err |-> ErrRead, writes |-> 1,
        execs |-> 1]
  ELSE [files |-> Unlink(Unlink(files \cup {inF, outF}, inF), outF),
        err |-> None, writes |-> 1, execs |-> 1]

\* the catch block: if (fs.existsSync(f)) fs.unlinkSync(f), for both files
CatchCleanUp(files, inF, outF) ==
  LET a == IF inF \in files THEN Unlink(files, inF) ELSE files
  IN IF outF \in a THEN Unlink(a, outF) ELSE a

\* if (!fs.existsSync(tempDir)) fs.mkdirSync(tempDir, { recursive: true })
MkdirThrows(fs, o) == ~fs.dir /\ o.mkdir = "fail"

\* convertAnimatedWebPToMP4(webpBuffer)
ConvertAnimatedWebPToMP4(flag, fs, b, stamp, o) ==
  IF ~flag THEN ConvThrow(fs, ErrFFmpegUnavailable, 0, 0)
  ELSE IF MkdirThrows(fs, o) THEN ConvThrow(fs, ErrMkdir, 0, 0)
  ELSE LET inF == InputFile(stamp, "webp")
           outF == OutputFile(stamp, "mp4")
           t == TryTranscode(fs.files, inF, outF, o)
       IN IF t.err = None
          THEN ConvReturn([dir |-> TRUE, files |-> t.files], Transcoded("mp4", b),
                          t.writes, t.execs)
          ELSE ConvThrow([dir |-> TRUE,
                          files |-> CatchCleanUp(t.files, inF, outF)],
                         t.err, t.writes, t.execs)

WebPUnavailable_Never(flag, isAnimated) == FALSE

\* if (!ffmpegAvailable && isAnimated)
WebPUnavailable(flag, isAnimated) == ~flag /\ isAnimated

\* convertTelegramStickerToWebP(stickerBuffer, isAnimated)
ConvertTelegramStickerToWebP(flag, isAnimated, fs, b, stamp, o) ==
  IF WebPUnavailable(flag, isAnimated)
  THEN ConvThrow(fs, ErrFFmpegUnavailable, 0, 0)
  ELSE IF MkdirThrows(fs, o) THEN ConvThrow(fs, ErrMkdir, 0, 0)
  ELSE LET inF == InputFile(stamp, IF isAnimated THEN "webm" ELSE "webp")
           outF == OutputFile(stamp, "webp")
           t == TryTranscode(fs.files, inF, outF, o)
       IN IF t.err = None
          THEN ConvReturn([dir |-> TRUE, files |-> t.files], Transcoded("webp", b),
                          t.writes, t.execs)
          ELSE ConvThrow([dir |-> TRUE,
                          files |-> CatchCleanUp(t.files, inF, outF)],
                         t.err, t.writes, t.execs)

\* convertToVideoNote(videoBuffer): the catch block returns the input
ConvertToVideoNote(flag, fs, b, stamp, o) ==
  IF ~flag THEN ConvReturn(fs, b, 0, 0)
  ELSE IF MkdirThrows(fs, o) THEN ConvThrow(fs, ErrMkdir, 0, 0)
  ELSE LET inF == InputFile(stamp, "mp4")
           outF == OutputFile(stamp, "mp4")
           t == TryTranscode(fs.files, inF, outF, o)
       IN IF t.err = None
          THEN ConvReturn([dir |-> TRUE, files |-> t.files], Transcoded("note", b),
                          t.writes, t.execs)
          ELSE [ConvReturn([dir |-> TRUE,
                            files |-> CatchCleanUp(t.files, inF, outF)],
                           b, t.writes, t.execs) EXCEPT !.err = t.err]

\* ---------------------------------------------------- conversation addresses
\* An address is the sequence of its characters, the "@..." suffix being one
\* token: "+15:2@s.whatsapp.net" is <<"+", "1", "5", ":", "2",
\* "@s.whatsapp.net">>.
Digits == {"1", "5"}
Numbers ==
  {<<a>> : a \in Digits} \cup {<<a, b>> : a, b \in Digits}
  \cup {<<a, b, c>> : a, b, c \in Digits}

\* the part of a sender address before the "@": the number, written with or
\* without a leading "+", with or without the ":<device>" suffix of a
\* companion device, or with a "+" between its digits
UserParts ==
  {p \o n \o d : p \in {<<>>, <<"+">>}, n \in Numbers,
                 d \in {<<>>, <<":", "1">>, <<":", "5">>}}
  \cup {<<a, "+", b>> : a, b \in Digits}

\* m.sender of an individual message: a phone-number address or a
\* linked-id address
SenderAddresses ==
  {Append(u, dom) : u \in UserParts, dom \in {"@s.whatsapp.net", "@lid"}}

\* m.chat of a group message
GroupAddresses == {Append(n, "@g.us") : n \in Numbers}

IsSuffixToken(c) == c \in {"@s.whatsapp.net", "@lid", "@g.us"}

\* m.sender.split("@")[0]
BeforeAt(address) == SelectSeq(address, LAMBDA c : ~IsSuffixToken(c))

\* whatsappNumber.replace(/[^\d+]/g, "")
KeepDigitsAndPlus(number) ==
  SelectSeq(number, LAMBDA c : c \in Digits \cup {"+"})

\* if (whatsappNumber.startsWith("+")) whatsappNumber.substring(1)
DropLeadingPlus(number) ==
  IF number # <<>> /\ Head(number) = "+" THEN Tail(number) ELSE number

\* m.chat.replace("@g.us", "")
GroupIdOf(chat) == SelectSeq(chat, LAMBDA c : c # "@g.us")

\* forwardToTelegram: identifier of the conversation of a message
IdentifierOf(isGroup, address) ==
  IF isGroup THEN <<"group_">> \o GroupIdOf(address)
  ELSE DropLeadingPlus(KeepDigitsAndPlus(BeforeAt(address)))

\* handleTelegramMessage: whatsappJid of an identifier
WhatsappJid(identifier) ==
  IF identifier # <<>> /\ Head(identifier) = "group_"
  THEN Append(Tail(identifier), "@g.us")
  ELSE Append(identifier, "@s.whatsapp.net")

\* an address on its way through both derivations
NoRoute ==
  [pc |-> "none", isGroup |-> FALSE, address |-> <<>>, identifier |-> <<>>,
   jid |-> <<>>]

\* the record of the last call of a transcoding function: the function, its
\* arguments, the scratch directory before the call and the call's result
NoConv ==
  [fn |-> "none", isAnimated |-> FALSE, input |-> None, before |-> EmptyScratch,
   calls |-> 0, status |-> "none", ret |-> None, err |-> None, writes |-> 0,
   execs |-> 0]

ConvRecord(fn, isAnimated, b, r) ==
  [fn |-> fn, isAnimated |-> isAnimated, input |-> b, before |-> scratch,
   calls |-> conv.calls + 1, status |-> r.status, ret |-> r.ret,
   err |-> r.err, writes |-> r.writes, execs |-> r.execs]

\* ------------------------------------------------- status and call events
Events == 1..NumEvents
SpecialKinds == {"status", "call"}

\* statusData.number of the contact whose status is forwarded
StatusNumber == "15550001111"
\* statusId = `${statusData.number}_${Date.now()}`, as its two parts; the
\* clock value of event e is e
StatusId(e) == <<StatusNumber, e>>
NoStatus == <<>>
\* const [statusSender, statusTimestamp] = statusInfo.split("_")
StatusSender(statusInfo) == statusInfo[1]

\* caption: the status carries a caption (these statuses carry no media)
IdleEvent ==
  [pc |-> "idle", kind |-> "status", caption |-> TRUE, thread |-> NoThread]
DoneEvent == [IdleEvent EXCEPT !.pc = "done"]

\* ----------------------------------------------------- destination messages
\* the handleTelegramMessage task: the message it handles (thread, fromBot,
\* inGroup, reply, waUp, kind, animated), what it found at its dispatch
\* (class) and what it has requested so far: the sends to the source
\* network (waSends, waTarget, quoted, image, sticker), the
\* acknowledgments (acks: the glyphs asked for, reacted: a reaction was
\* set) and the sends to the destination surface (tgSends)
IdleInbound ==
  [pc |-> "idle", thread |-> NoThread, fromBot |-> FALSE, inGroup |-> TRUE,
   reply |-> NoMsg, waUp |-> TRUE, class |-> "none", waSends |-> 0,
   waTarget |-> "", quoted |-> NoMsg, acks |-> <<>>, tgSends |-> 0,
   kind |-> "text", animated |-> FALSE, reacted |-> FALSE, image |-> None,
   sticker |-> None, text |-> <<"h", "i">>, admin |-> FALSE]

\* payload kinds of a destination message: text, contact, location, and of
\* the media kinds a photo and a sticker
MediaKinds == {"photo", "sticker"}
PayloadKinds == {"text", "contact", "location"} \cup MediaKinds

\* the buffer downloaded for a media message
MediaBuffer == <<"raw", "b1">>

\* ------------------------------------------------------------------ store
\* rows of an earlier session: at most one conversation, in thread 1
PersistedRows ==
  {[i \in Idents |-> NoThread]} \cup
  {[i \in Idents |-> IF i = j THEN 1 ELSE NoThread] : j \in Idents}

\* DatabaseOps.getTelegramTopics(): the reverse map of the persisted rows
ReverseOf(rows) ==
  [t \in Threads |->
     IF \E i \in Idents : rows[i] = t
     THEN CHOOSE i \in Idents : rows[i] = t
     ELSE Absent]

\* DatabaseOps.saveTelegramTopic(identifier, threadId, displayName)
SaveTelegramTopic(rows, identifier, threadId) ==
  [rows EXCEPT ![identifier] = threadId]

InitRegistry ==
  /\ createTopics \in BOOLEAN
  /\ topicMapping = [i \in Idents |-> NoThread]
  /\ reverseTopicMapping = [t \in Threads |-> Absent]
  /\ statusTopicId = NoThread
  /\ callTopicId = NoThread
  /\ pinnedMessages = [t \in Threads |-> FALSE]
  /\ store \in PersistedRows
  /\ loadPc = "pending"
  /\ loaded = store
  /\ nextThread = 2
  /\ task = [k \in Tasks |-> IdleTask]
  /\ lastCall = [i \in Idents |-> NoCall]
  /\ contactsCache = [i \in Idents |-> ""]
  /\ chatMessageMapping = [d \in MsgIds |-> NoMsg]
  /\ statusMessageMapping = [d \in MsgIds |-> NoStatus]
  /\ event = [e \in Events |-> IdleEvent]
  /\ inbound = IdleInbound
  /\ spCreates = [kind \in SpecialKinds |-> 0]

\* no transcoding function has been called and no address derived
InitCalls ==
  /\ conv = NoConv
  /\ route = NoRoute

\* the transcoder is installed, media are forwarded, no temp directory yet
InitMedia ==
  /\ ffmpegAvailable = TRUE
  /\ forwardMedia = TRUE
  /\ scratch = EmptyScratch
  /\ InitCalls

\* config.telegram.sendConfirmation is read by sendConfirmation only, which
\* the handlers of source messages never call
Init ==
  /\ InitRegistry
  /\ sendConfirmation = FALSE
  /\ InitMedia

BridgeInit ==
  /\ InitRegistry
  /\ sendConfirmation \in BOOLEAN
  /\ InitMedia

\* the module is loaded with or without the transcoder installed, the temp
\* directory being in any of its states
ConvertInit ==
  /\ InitRegistry
  /\ sendConfirmation = FALSE
  /\ ffmpegAvailable \in BOOLEAN
  /\ forwardMedia = TRUE
  /\ scratch \in ScratchStates
  /\ InitCalls

\* ------------------------------------------------------ loadTopicMappings
\* initTelegramBot starts loadTopicMappings without awaiting it; the rows
\* are those the store held when the query was issued
LoadAssign ==
  /\ loadPc = "pending"
  /\ loadPc' = "done"
  /\ topicMapping' = loaded
  /\ reverseTopicMapping' = ReverseOf(loaded)
  /\ statusTopicId' = NoThread
  /\ callTopicId' = NoThread
  /\ loaded' = [i \in Idents |-> NoThread]
  /\ UNCHANGED <<createTopics, pinnedMessages, store, nextThread, task,
                 lastCall>>
  /\ UNCHANGED <<contactsCache, chatMessageMapping>>
  /\ UNCHANGED bridgeVars

\* getTelegramTopics() rejects: logged, nothing assigned
LoadFail ==
  /\ loadPc = "pending"
  /\ loadPc' = "done"
  /\ loaded' = [i \in Idents |-> NoThread]
  /\ UNCHANGED <<createTopics, topicMapping, reverseTopicMapping,
                 statusTopicId, callTopicId, pinnedMessages, store,
                 nextThread, task, lastCall>>
  /\ UNCHANGED <<contactsCache, chatMessageMapping>>
  /\ UNCHANGED bridgeVars

\* -------------------------------------------------------- getOrCreateTopic
TopicExists_Never(tm, identifier) == FALSE

\* if (topicMapping[identifier])
TopicExists(tm, identifier) == tm[identifier] # NoThread

\* the label of the topicName the first createForumTopic request carries:
\* displayName for a group, `${cleanContactName} (+${identifier})` otherwise
TopicNameOf(r, cache) ==
  IF StartsWithGroup(r.identifier) THEN DisplayNameOf(r.identifier, r.name)
  ELSE GetContactName(cache, r.identifier,
                      DisplayNameOf(r.identifier, r.name))

\* entry of getOrCreateTopic up to its first external await
GocEnter(r, caller, tm, lc, cache) ==
  LET b == [r EXCEPT !.caller = caller, !.createCount = 0, !.first = "none",
                     !.created = NoThread, !.saved = FALSE, !.info = FALSE,
                     !.ret = NoThread, !.prev = lc[r.identifier],
                     !.startMapped = tm[r.identifier], !.topicName = "",
                     !.saveOk = FALSE,
                     !.startCached = cache[r.identifier]]
  IN IF ~createTopics THEN [b EXCEPT !.pc = "gocRet"]
     ELSE IF TopicExists(tm, r.identifier)
          THEN [b EXCEPT !.pc = "gocRet", !.ret = tm[r.identifier]]
          ELSE [b EXCEPT !.pc = "create1", !.createCount = 1,
                         !.topicName = TopicNameOf(r, cache)]

\* contactsCache after that entry: getContactName stores the name it
\* returns when an individual's thread is about to be created
CacheAfterGoc(r, tm, cache) ==
  IF createTopics /\ ~TopicExists(tm, r.identifier)
     /\ ~StartsWithGroup(r.identifier)
  THEN [cache EXCEPT ![r.identifier] = TopicNameOf(r, cache)]
  ELSE cache

\* the catch block of getOrCreateTopic
GocCatch(r, msg) ==
  IF IsDuplicateError(msg)
  THEN [r EXCEPT !.pc = "create2", !.createCount = r.createCount + 1]
  ELSE [r EXCEPT !.pc = "gocRet", !.ret = NoThread]

\* lastCall records every return of a thread id
Returned(k, lc) ==
  IF task[k].pc # "gocRet" /\ task'[k].pc = "gocRet" /\ task'[k].ret # NoThread
  THEN [lc EXCEPT ![task'[k].identifier] =
                     [ret |-> task'[k].ret, n |-> task'[k].createCount]]
  ELSE lc

\* ------------------------------------------------- sendToTelegramWithRetry
SwrEnter(r, phase, thread) ==
  [r EXCEPT !.pc = "send1", !.phase = phase, !.thread = thread, !.sends = 1,
            !.firstErr = None, !.retryErr = None, !.raised = None,
            !.inval = 0, !.gocCalls = 0, !.newTopicId = NoThread]

\* ------------------------------------------------------- forwardToTelegram
\* group messages always send a text line; individual ones only with a body
SendsText(r) == StartsWithGroup(r.identifier) \/ r.type = "text"

\* after the text block: if (!topicId) return, else saveUser
AfterText(r) ==
  IF r.topicId = NoThread THEN DoneTask ELSE [r EXCEPT !.pc = "saveUser"]

\* forwardToTelegram(m) up to the first await of getOrCreateTopic; the
\* invocations are numbered in the order of their start
BeginWith(k, types, names, anims) ==
  /\ task[k].pc = "idle"
  /\ \A j \in Tasks : j < k => task[j].pc # "idle"
  /\ \E i \in Idents, ty \in types, nm \in names, an \in anims :
       LET r == [IdleTask EXCEPT !.identifier = i, !.type = ty, !.name = nm,
                                 !.animated = (ty = "sticker" /\ an)]
       IN /\ task' = [task EXCEPT ![k] =
                        GocEnter(r, "fwd", topicMapping, lastCall,
                                 contactsCache)]
          /\ contactsCache' = CacheAfterGoc(r, topicMapping, contactsCache)
  /\ lastCall' = Returned(k, lastCall)
  /\ UNCHANGED <<createTopics, topicMapping, reverseTopicMapping,
                 statusTopicId, callTopicId, pinnedMessages, store, loadPc,
                 loaded, nextThread, chatMessageMapping>>
  /\ UNCHANGED bridgeVars

\* ... for a message that is no sticker
Begin(k, types, names) == BeginWith(k, types, names, {FALSE})

\* a text message without m.name arrives, whatever the other tasks are doing
Start(k) == Begin(k, {"text"}, {""})

\* a text or contact message without m.name arrives while no other message
\* is in flight
StartAlone(k) ==
  /\ \A j \in Tasks \ {k} : task[j].pc \in {"idle", "done"}
  /\ Begin(k, {"text", "contact"}, {""})

\* the same with or without m.name
StartNamed(k) ==
  /\ \A j \in Tasks \ {k} : task[j].pc \in {"idle", "done"}
  /\ Begin(k, {"text", "contact"}, Names)

\* createForumTopic of the first attempt answers
Create1Resp(k) ==
  /\ task[k].pc = "create1"
  /\ LET r == task[k] IN
     \/ \* a thread is created: insert both entries, then await the store
        /\ nextThread <= MaxCreated + 1
        /\ topicMapping' = [topicMapping EXCEPT ![r.identifier] = nextThread]
        /\ reverseTopicMapping' =
             [reverseTopicMapping EXCEPT ![nextThread] = r.identifier]
        /\ nextThread' = nextThread + 1
        /\ task' = [task EXCEPT ![k] =
                      [r EXCEPT !.pc = "save1", !.first = "ok",
                                !.created = nextThread]]
     \/ \* a result without message_thread_id: falls through to return null
        /\ task' = [task EXCEPT ![k] =
                      [r EXCEPT !.pc = "gocRet", !.first = "empty",
                                !.ret = NoThread]]
        /\ UNCHANGED <<topicMapping, reverseTopicMapping, nextThread>>
     \/ \* the request fails
        /\ \E msg \in CreateErrors :
             task' = [task EXCEPT ![k] =
                        GocCatch([r EXCEPT !.first =
                                    IF IsDuplicateError(msg) THEN "dup"
                                    ELSE "other"], msg)]
        /\ UNCHANGED <<topicMapping, reverseTopicMapping, nextThread>>
  /\ lastCall' = Returned(k, lastCall)
  /\ UNCHANGED <<createTopics, statusTopicId, callTopicId, pinnedMessages,
                 store, loadPc, loaded>>
  /\ UNCHANGED <<contactsCache, chatMessageMapping>>
  /\ UNCHANGED bridgeVars

AlreadyPinned_Never(pins, t) == FALSE

\* if (pinnedMessages[topicId]) return
AlreadyPinned(pins, t) == pins[t]

\* DatabaseOps.saveTelegramTopic of the first attempt answers
Save1Resp(k) ==
  /\ task[k].pc = "save1"
  /\ LET r == task[k] IN
     \/ \* saved: createAndPin*Info posts the info message unless pinned
        /\ store' = SaveTelegramTopic(store, r.identifier, r.created)
        /\ task' = [task EXCEPT ![k] =
                      IF AlreadyPinned(pinnedMessages, r.created)
                      THEN [r EXCEPT !.pc = "gocRet", !.saved = TRUE,
                                     !.saveOk = TRUE, !.ret = r.created]
                      ELSE [r EXCEPT !.pc = "infoSend", !.saved = TRUE,
                                     !.saveOk = TRUE, !.info = TRUE]]
     \/ \* the store write fails: the catch block of getOrCreateTopic runs
        /\ \E msg \in StoreErrors :
             task' = [task EXCEPT ![k] =
                        GocCatch([r EXCEPT !.saved = TRUE], msg)]
        /\ UNCHANGED store
  /\ lastCall' = Returned(k, lastCall)
  /\ UNCHANGED <<createTopics, topicMapping, reverseTopicMapping,
                 statusTopicId, callTopicId, pinnedMessages, loadPc, loaded,
                 nextThread>>
  /\ UNCHANGED <<contactsCache, chatMessageMapping>>
  /\ UNCHANGED bridgeVars

\* sendMessage of the info text answers (createAndPinUserInfo / GroupInfo)
InfoSendResp(k) ==
  /\ task[k].pc = "infoSend"
  /\ LET r == task[k] IN
     \/ \* posted: pin it
        task' = [task EXCEPT ![k] = [r EXCEPT !.pc = "pin"]]
     \/ \* failed, or no message id: logged, getOrCreateTopic returns
        task' = [task EXCEPT ![k] =
                   [r EXCEPT !.pc = "gocRet", !.ret = r.created]]
  /\ lastCall' = Returned(k, lastCall)
  /\ UNCHANGED <<createTopics, topicMapping, reverseTopicMapping,
                 statusTopicId, callTopicId, pinnedMessages, store, loadPc,
                 loaded, nextThread>>
  /\ UNCHANGED <<contactsCache, chatMessageMapping>>
  /\ UNCHANGED bridgeVars

\* pinChatMessage answers; createAndPinUserInfo repeats a failed pin once
\* without options, createAndPinGroupInfo only logs the failure
PinResp(k) ==
  /\ task[k].pc = "pin"
  /\ LET r == task[k] IN
     /\ \/ pinnedMessages' = [pinnedMessages EXCEPT ![r.created] = TRUE]
        \/ UNCHANGED pinnedMessages
     /\ task' = [task EXCEPT ![k] =
                   [r EXCEPT !.pc = "gocRet", !.ret = r.created]]
  /\ lastCall' = Returned(k, lastCall)
  /\ UNCHANGED <<createTopics, topicMapping, reverseTopicMapping,
                 statusTopicId, callTopicId, store, loadPc, loaded,
                 nextThread>>
  /\ UNCHANGED <<contactsCache, chatMessageMapping>>
  /\ UNCHANGED bridgeVars

\* createForumTopic of the disambiguated retry answers
Create2Resp(k) ==
  /\ task[k].pc = "create2"
  /\ LET r == task[k] IN
     \/ /\ nextThread <= MaxCreated + 1
        /\ topicMapping' = [topicMapping EXCEPT ![r.identifier] = nextThread]
        /\ reverseTopicMapping' =
             [reverseTopicMapping EXCEPT ![nextThread] = r.identifier]
        /\ nextThread' = nextThread + 1
        /\ task' = [task EXCEPT ![k] =
                      [r EXCEPT !.pc = "save2", !.created = nextThread]]
     \/ \* no thread id in the result, or the retry failed: return null
        /\ task' = [task EXCEPT ![k] =
                      [r EXCEPT !.pc = "gocRet", !.ret = NoThread]]
        /\ UNCHANGED <<topicMapping, reverseTopicMapping, nextThread>>
  /\ lastCall' = Returned(k, lastCall)
  /\ UNCHANGED <<createTopics, statusTopicId, callTopicId, pinnedMessages,
                 store, loadPc, loaded>>
  /\ UNCHANGED <<contactsCache, chatMessageMapping>>
  /\ UNCHANGED bridgeVars

\* DatabaseOps.saveTelegramTopic of the retry answers
Save2Resp(k) ==
  /\ task[k].pc = "save2"
  /\ LET r == task[k] IN
     \/ /\ store' = SaveTelegramTopic(store, r.identifier, r.created)
        /\ task' = [task EXCEPT ![k] =
                      [r EXCEPT !.pc = "gocRet", !.saved = TRUE,
                                !.ret = r.created]]
     \/ \* caught by the inner catch: return null
        /\ UNCHANGED store
        /\ task' = [task EXCEPT ![k] =
                      [r EXCEPT !.pc = "gocRet", !.saved = TRUE,
                                !.ret = NoThread]]
  /\ lastCall' = Returned(k, lastCall)
  /\ UNCHANGED <<createTopics, topicMapping, reverseTopicMapping,
                 statusTopicId, callTopicId, pinnedMessages, loadPc, loaded,
                 nextThread>>
  /\ UNCHANGED <<contactsCache, chatMessageMapping>>
  /\ UNCHANGED bridgeVars

\* the awaiting caller of getOrCreateTopic resumes with the returned value
GocReturn(k) ==
  /\ task[k].pc = "gocRet"
  /\ LET r == task[k] IN
     task' = [task EXCEPT ![k] =
       IF r.caller = "fwd"
       THEN \* forwardToTelegram: topicId = await getOrCreateTopic(...)
            LET f == GocLeave([r EXCEPT !.topicId = r.ret]) IN
            IF SendsText(f) THEN SwrEnter(f, "text", f.topicId)
            ELSE AfterText(f)
       ELSE \* sendToTelegramWithRetry: newTopicId = await getOrCreateTopic
            IF r.ret # NoThread
            THEN GocLeave([r EXCEPT !.pc = "send2", !.newTopicId = r.ret,
                                    !.thread = RetryThread(r.ret, r.thread),
                                    !.sends = r.sends + 1])
            ELSE GocLeave([r EXCEPT !.pc = "swrDone",
                                    !.raised = r.firstErr])]
  /\ UNCHANGED <<createTopics, topicMapping, reverseTopicMapping,
                 statusTopicId, callTopicId, pinnedMessages, store, loadPc,
                 loaded, nextThread, lastCall>>
  /\ UNCHANGED <<contactsCache, chatMessageMapping>>
  /\ UNCHANGED bridgeVars

\* the first telegramBot.sendMessage of sendToTelegramWithRetry answers
Send1Resp(k) ==
  /\ task[k].pc = "send1"
  /\ LET r == task[k] IN
     \/ \* delivered
        /\ task' = [task EXCEPT ![k] = [r EXCEPT !.pc = "swrDone"]]
        /\ UNCHANGED <<topicMapping, reverseTopicMapping, lastCall,
                       contactsCache>>
     \/ \E msg \in SendErrors :
          IF ShouldRecreate(r.identifier,
                            DisplayNameOf(r.identifier, r.name),
                            r.thread, msg)
          THEN \* remove the old mapping, then call getOrCreateTopic
               LET tm == [topicMapping EXCEPT ![r.identifier] = NoThread]
                   lc == [lastCall EXCEPT ![r.identifier] = NoCall]
               IN /\ topicMapping' = tm
                  /\ reverseTopicMapping' =
                       [reverseTopicMapping EXCEPT ![r.thread] = Absent]
                  /\ task' = [task EXCEPT ![k] =
                       GocEnter([r EXCEPT !.firstErr = msg,
                                          !.inval = r.inval + 1,
                                          !.gocCalls = r.gocCalls + 1],
                                "retry", tm, lc, contactsCache)]
                  /\ contactsCache' = CacheAfterGoc(r, tm, contactsCache)
                  /\ lastCall' = Returned(k, lc)
          ELSE \* throw error
               /\ task' = [task EXCEPT ![k] =
                             [r EXCEPT !.pc = "swrDone", !.firstErr = msg,
                                       !.raised = msg]]
               /\ UNCHANGED <<topicMapping, reverseTopicMapping, lastCall,
                              contactsCache>>
  /\ UNCHANGED <<createTopics, statusTopicId, callTopicId, pinnedMessages,
                 store, loadPc, loaded, nextThread, chatMessageMapping>>
  /\ UNCHANGED bridgeVars

\* the retried telegramBot.sendMessage answers
Send2Resp(k) ==
  /\ task[k].pc = "send2"
  /\ LET r == task[k] IN
     \/ task' = [task EXCEPT ![k] = [r EXCEPT !.pc = "swrDone"]]
     \/ \* throw retryError
        \E msg \in SendErrors :
          task' = [task EXCEPT ![k] =
                     [r EXCEPT !.pc = "swrDone", !.retryErr = msg,
                               !.raised = msg]]
  /\ UNCHANGED <<createTopics, topicMapping, reverseTopicMapping,
                 statusTopicId, callTopicId, pinnedMessages, store, loadPc,
                 loaded, nextThread, lastCall>>
  /\ UNCHANGED <<contactsCache, chatMessageMapping>>
  /\ UNCHANGED bridgeVars

\* forwardToTelegram resumes after sendToTelegramWithRetry returned or threw
SwrReturn(k) ==
  /\ task[k].pc = "swrDone"
  /\ LET r == task[k] IN
     /\ task' = [task EXCEPT ![k] =
                   IF r.phase = "text" THEN AfterText(SwrLeave(r))
                   ELSE DoneTask]
     /\ chatMessageMapping' =
          IF r.phase = "text" /\ r.raised = None
          THEN \* chatMessageMapping[sentMessage.message_id] = m.id
               Correlate(chatMessageMapping, TextMsgId(k), SourceMsgId(k))
          ELSE \* the catch of the text send, or the contact fallback text
               chatMessageMapping
  /\ UNCHANGED <<createTopics, topicMapping, reverseTopicMapping,
                 statusTopicId, callTopicId, pinnedMessages, store, loadPc,
                 loaded, nextThread, lastCall, contactsCache>>
  /\ UNCHANGED bridgeVars

\* DatabaseOps.saveUser and DatabaseOps.saveMessage answer; a rejection
\* of either ends the handler in its outer catch.  A contact without phone
\* number is then sent as text through sendToTelegramWithRetry.
SaveRecordsResp(k) ==
  /\ task[k].pc = "saveUser"
  /\ LET r == task[k] IN
     \/ task' = [task EXCEPT ![k] =
                   IF r.type = "contact"
                   THEN SwrEnter(r, "contact", r.topicId)
                   ELSE IF r.type = "sticker" /\ forwardMedia
                   THEN \* mediaBuffer = await m.download()
                        [r EXCEPT !.pc = "download"]
                   ELSE DoneTask]
     \/ task' = [task EXCEPT ![k] = FwdCatch(r)]
  /\ UNCHANGED <<createTopics, topicMapping, reverseTopicMapping,
                 statusTopicId, callTopicId, pinnedMessages, store, loadPc,
                 loaded, nextThread, lastCall>>
  /\ UNCHANGED <<contactsCache, chatMessageMapping>>
  /\ UNCHANGED bridgeVars

\* ------------------------------------------- forwardToTelegram: a sticker
\* the state the media block does not write
mediaFrame ==
  /\ UNCHANGED <<createTopics, topicMapping, reverseTopicMapping,
                 statusTopicId, callTopicId, pinnedMessages, store, loadPc,
                 loaded, nextThread, lastCall, contactsCache>>
  /\ UNCHANGED <<statusMessageMapping, event, inbound, spCreates,
                 sendConfirmation, ffmpegAvailable, forwardMedia, route>>

\* if (isAnimated && ffmpegAvailable): the sticker is converted and sent
\* as animation; otherwise it goes to sendSticker as downloaded
ConvertsSticker(isAnimated, flag) == isAnimated /\ flag

\* m.download() answers.  A rejection ends in the catch of the media
\* block.  The sticker block then converts the sticker, without await, and
\* requests its first send: sendAnimation, sendSticker, or sendPhoto from
\* catch (stickerError) when the conversion threw.  Each of them carries
\* message_thread_id: topicId.
DownloadResp(k) ==
  /\ task[k].pc = "download"
  /\ LET r == task[k] IN
     \/ /\ task' = [task EXCEPT ![k] = DoneTask]
        /\ UNCHANGED <<scratch, conv>>
     \/ /\ ~ConvertsSticker(r.animated, ffmpegAvailable)
        /\ task' = [task EXCEPT ![k] = [r EXCEPT !.pc = "sendSticker",
                                                 !.thread = r.topicId]]
        /\ UNCHANGED <<scratch, conv>>
     \/ /\ ConvertsSticker(r.animated, ffmpegAvailable)
        /\ conv.calls < MaxCalls
        /\ \E o \in FsOutcomes :
             LET c == ConvertAnimatedWebPToMP4(ffmpegAvailable, scratch,
                                               MediaBuffer, conv.calls + 1, o)
             IN /\ scratch' = c.fs
                /\ conv' = ConvRecord("convertAnimatedWebPToMP4", TRUE,
                                      MediaBuffer, c)
                /\ task' = [task EXCEPT ![k] =
                              [r EXCEPT !.pc = IF c.status = "returned"
                                               THEN "sendAnimation"
                                               ELSE "sendPhoto",
                                        !.thread = r.topicId]]
  /\ UNCHANGED chatMessageMapping
  /\ mediaFrame

\* sendAnimation or sendSticker answers; a rejection is caught by
\* catch (stickerError), which requests sendPhoto of the downloaded buffer
StickerSendResp(k) ==
  /\ task[k].pc \in {"sendAnimation", "sendSticker"}
  /\ \/ /\ chatMessageMapping' =
             Correlate(chatMessageMapping, MediaMsgId(k), SourceMsgId(k))
        /\ task' = [task EXCEPT ![k] = DoneTask]
     \/ /\ \E msg \in SendErrors :
             task' = [task EXCEPT ![k] = [task[k] EXCEPT !.pc = "sendPhoto",
                                                         !.firstErr = msg]]
        /\ UNCHANGED chatMessageMapping
  /\ UNCHANGED <<scratch, conv>>
  /\ mediaFrame

\* sendPhoto of catch (stickerError) answers; a rejection ends in the
\* catch of the media block
PhotoSendResp(k) ==
  /\ task[k].pc = "sendPhoto"
  /\ \/ chatMessageMapping' =
          Correlate(chatMessageMapping, MediaMsgId(k), SourceMsgId(k))
     \/ UNCHANGED chatMessageMapping
  /\ task' = [task EXCEPT ![k] = DoneTask]
  /\ UNCHANGED <<scratch, conv>>
  /\ mediaFrame

\* ---------------------- forwardStatusToTelegram and forwardCallToTelegram
SpecialId(kind) == IF kind = "status" THEN statusTopicId ELSE callTopicId

\* the handler after `await createStatusTopic()` / `await createCallTopic()`:
\* it reads the module variable again, returns if it is unset, and
\* otherwise requests the send into that thread
EvAfterCreate(r, id) ==
  IF id = NoThread THEN DoneEvent
  ELSE IF r.kind = "status" /\ ~r.caption
  THEN \* a status without caption and media is skipped
       DoneEvent
  ELSE [r EXCEPT !.pc = "evSend", !.thread = id]

\* a status update or a call log arrives; the events are numbered in the
\* order of their arrival
EvStart(e) ==
  /\ event[e].pc = "idle"
  /\ \A j \in Events : j < e => event[j].pc # "idle"
  /\ \E kind \in SpecialKinds, caption \in BOOLEAN :
       LET r == [IdleEvent EXCEPT !.kind = kind, !.caption = caption] IN
       /\ kind = "call" => caption
       /\ IF SpecialId(kind) # NoThread
          THEN /\ event' = [event EXCEPT ![e] =
                              EvAfterCreate(r, SpecialId(kind))]
               /\ UNCHANGED spCreates
          ELSE IF ~createTopics
          THEN \* createStatusTopic / createCallTopic return null at once
               /\ event' = [event EXCEPT ![e] = DoneEvent]
               /\ UNCHANGED spCreates
          ELSE \* createForumTopic is requested
               /\ event' = [event EXCEPT ![e] = [r EXCEPT !.pc = "spCreate"]]
               /\ spCreates' =
                    [spCreates EXCEPT ![kind] = spCreates[kind] + 1]
  /\ UNCHANGED <<createTopics, statusTopicId, callTopicId, loadPc, loaded,
                 nextThread, statusMessageMapping, inbound, sendConfirmation,
                 auxVars>>
  /\ UNCHANGED forwardVars

\* the same while no other status or call event is being handled
EvStartAlone(e) ==
  /\ \A j \in Events \ {e} : event[j].pc \in {"idle", "done"}
  /\ EvStart(e)

\* createForumTopic of createStatusTopic / createCallTopic answers
SpCreateResp(e) ==
  /\ event[e].pc = "spCreate"
  /\ LET r == event[e] IN
     \/ \* created: the module variable is set, then the store is awaited
        /\ nextThread <= MaxCreated + 1
        /\ IF r.kind = "status"
           THEN statusTopicId' = nextThread /\ UNCHANGED callTopicId
           ELSE callTopicId' = nextThread /\ UNCHANGED statusTopicId
        /\ nextThread' = nextThread + 1
        /\ event' = [event EXCEPT ![e] = [r EXCEPT !.pc = "spSave"]]
     \/ \* rejected, or a result without thread id: null is returned
        /\ event' = [event EXCEPT ![e] = EvAfterCreate(r, SpecialId(r.kind))]
        /\ UNCHANGED <<statusTopicId, callTopicId, nextThread>>
  /\ UNCHANGED <<createTopics, loadPc, loaded, statusMessageMapping, inbound,
                 spCreates, sendConfirmation, auxVars>>
  /\ UNCHANGED forwardVars

\* DatabaseOps.saveSpecialTopic answers
SpSaveResp(e) ==
  /\ event[e].pc = "spSave"
  /\ LET r == event[e] IN
     \/ \* saved: the info text is sent into the thread
        event' = [event EXCEPT ![e] = [r EXCEPT !.pc = "spInfo"]]
     \/ \* rejected: caught, null is returned, the variable stays set
        event' = [event EXCEPT ![e] = EvAfterCreate(r, SpecialId(r.kind))]
  /\ UNCHANGED <<createTopics, statusTopicId, callTopicId, loadPc, loaded,
                 nextThread, statusMessageMapping, inbound, spCreates,
                 sendConfirmation, auxVars>>
  /\ UNCHANGED forwardVars

\* sendMessage of the info text answers; a failure is caught and logged
SpInfoResp(e) ==
  /\ event[e].pc = "spInfo"
  /\ event' = [event EXCEPT ![e] =
                 EvAfterCreate(event[e], SpecialId(event[e].kind))]
  /\ UNCHANGED <<createTopics, statusTopicId, callTopicId, loadPc, loaded,
                 nextThread, statusMessageMapping, inbound, spCreates,
                 sendConfirmation, auxVars>>
  /\ UNCHANGED forwardVars

\* the send of the status text or of the call log answers
EvSendResp(e) ==
  /\ event[e].pc = "evSend"
  /\ \/ \* delivered: a status is recorded for replies
        statusMessageMapping' =
          IF event[e].kind = "status"
          THEN [statusMessageMapping EXCEPT ![StatusMsgId(e)] = StatusId(e)]
          ELSE statusMessageMapping
     \/ \* failed: logged
        UNCHANGED statusMessageMapping
  /\ event' = [event EXCEPT ![e] = DoneEvent]
  /\ UNCHANGED <<createTopics, statusTopicId, callTopicId, loadPc, loaded,
                 nextThread, inbound, spCreates, sendConfirmation, auxVars>>
  /\ UNCHANGED forwardVars

\* ---------------------------------------------------- handleTelegramMessage
IsStatusTopic_Any(topicId, id) == TRUE

\* if (topicId === statusTopicId)
IsStatusTopic(topicId, id) == topicId = id

\* if (topicId === callTopicId)
IsCallTopic(topicId, id) == topicId = id

TrackedStatusReply_Any(reply, smm) == TRUE

\* msg.reply_to_message && statusMessageMapping[msg.reply_to_message.message_id]
TrackedStatusReply(reply, smm) == reply # NoMsg /\ smm[reply] # NoStatus

HasIdentifier_Any(identifier) == TRUE

\* const identifier = reverseTopicMapping[topicId]; if (!identifier) return
HasIdentifier(identifier) == identifier # Absent /\ Truthy(identifier)

\* whatsappJid of a conversation, statusJid of a status sender
JidOf(identifier) ==
  IF StartsWithGroup(identifier) THEN <<"g1", "@g.us">>
  ELSE <<identifier, "@s.whatsapp.net">>

\* message ids a destination message may reply to
Replies == {NoMsg, TextMsgId(1), StatusMsgId(1)}

\* msg.text of a destination message, as its characters: a plain text, a
\* command that is none of the known ones, and a text with a slash that is
\* not its first character
MessageTexts == {<<"h", "i">>, <<"/", "s">>, <<"h", "/">>}

IsCommand_Never(text) == FALSE

\* msg.text && msg.text.startsWith("/")
IsCommand(text) == text # <<>> /\ Head(text) = "/"

\* the destination messages handled: messages of a group member in any
\* thread, with or without reply, the source client connected or not;
\* messages of a bot or of another chat, and messages outside any thread,
\* without reply
InboundMessages ==
  { [IdleInbound EXCEPT !.thread = th, !.reply = reply, !.waUp = waUp] :
      th \in Threads, reply \in Replies, waUp \in BOOLEAN }
  \cup { [IdleInbound EXCEPT !.thread = th, !.fromBot = b, !.inGroup = ~b] :
           th \in Threads \cup {NoThread}, b \in BOOLEAN }
  \cup { IdleInbound }

\* the messages the "message" listener receives: those, and of a member,
\* of a bot or of another chat, of an authorized user or not, in any
\* thread or outside one, replying to a status message or not, a message
\* of each text
ListenerMessages ==
  InboundMessages
  \cup { [IdleInbound EXCEPT !.thread = th, !.fromBot = b, !.inGroup = g,
                             !.reply = reply, !.text = t, !.admin = a] :
           th \in Threads \cup {NoThread}, b \in BOOLEAN, g \in BOOLEAN,
           reply \in {NoMsg, StatusMsgId(1)}, t \in MessageTexts,
           a \in BOOLEAN }

\* default case of handleTelegramCommand:
\* isAuthorizedUser(userId) || chatId === config.telegram.groupId
CommandAnswered(m) == m.admin \/ m.inGroup

inboundFrame ==
  /\ UNCHANGED <<createTopics, statusTopicId, callTopicId, loadPc, loaded,
                 nextThread, statusMessageMapping, event, spCreates,
                 sendConfirmation, auxVars>>
  /\ UNCHANGED forwardVars

QuotedMessage_None(reply, cmm) == NoMsg

\* quotedMessage: the source message id recorded for the message replied to
QuotedMessage(reply, cmm) == IF reply # NoMsg THEN cmm[reply] ELSE NoMsg

\* the handler of the "message" event up to its first await in
\* handleTelegramMessage, for a message of msgs; a command goes to
\* handleTelegramCommand, which answers in the destination chat and makes
\* no call on the source client
TgStartOn(msgs) ==
  /\ inbound.pc = "idle"
  /\ \E m \in msgs :
       LET th == m.thread
           reply == m.reply
           waUp == m.waUp
           identifier == reverseTopicMapping[th]
       IN inbound' =
         IF IsCommand(m.text)
         THEN IF CommandAnswered(m)
              THEN \* telegramBot.sendMessage(chatId, "Unknown command ...")
                   [m EXCEPT !.pc = "cmdReply", !.class = "command",
                             !.tgSends = 1]
              ELSE [m EXCEPT !.pc = "done", !.class = "command"]
         ELSE IF ~m.inGroup \/ m.fromBot \/ th = NoThread
         THEN [m EXCEPT !.pc = "done", !.class = "skipped"]
         ELSE IF IsStatusTopic(th, statusTopicId)
         THEN IF TrackedStatusReply(reply, statusMessageMapping)
              THEN IF waUp
                   THEN \* global.bot.sendMessage(statusJid, reactionMessage)
                        [m EXCEPT !.pc = "stReact", !.class = "statusReply",
                                  !.waSends = @ + 1,
                                  !.waTarget = JidOf(StatusSender(
                                                 statusMessageMapping[reply]))]
                   ELSE [m EXCEPT !.pc = "done", !.class = "statusReply"]
              ELSE \* the hint is sent into the status thread
                   [m EXCEPT !.pc = "stHint", !.class = "statusOther",
                             !.tgSends = 1]
         ELSE IF IsCallTopic(th, callTopicId)
         THEN [m EXCEPT !.pc = "done", !.class = "call"]
         ELSE IF ~HasIdentifier(identifier)
         THEN [m EXCEPT !.pc = "done", !.class = "untracked"]
         ELSE \* a message in a conversation thread
              LET c == [m EXCEPT !.class = "chat",
                                 !.quoted =
                                   QuotedMessage(reply, chatMessageMapping)]
              IN IF m.kind \in MediaKinds
                 THEN \* getFileLink and the download of the file
                      [c EXCEPT !.pc = "download",
                                !.waTarget = JidOf(identifier)]
                 ELSE IF waUp
                 THEN \* global.bot.sendMessage(whatsappJid, ...)
                      [c EXCEPT !.pc = "waSend", !.waSends = @ + 1,
                                !.waTarget = JidOf(identifier)]
                 ELSE \* a contact or a location: the call on the absent
                      \* client throws into the catch of its block; a
                      \* text: the else branch; sendConfirmation(.., false)
                      [c EXCEPT !.pc = "ackReact", !.acks = <<"fail">>]
  /\ inboundFrame

\* ... for a text message that is not a command
TgStart == TgStartOn(InboundMessages)

\* ... for any message the listener receives
TgDispatch == TgStartOn(ListenerMessages)

\* the answer of handleTelegramCommand is sent, or the request is rejected
\* and its catch sends the error text; a rejection of that one is logged by
\* the catch of the listener
TgCommandResp ==
  /\ inbound.pc \in {"cmdReply", "cmdError"}
  /\ \/ inbound' = [inbound EXCEPT !.pc = "done"]
     \/ /\ inbound.pc = "cmdReply"
        /\ inbound' = [inbound EXCEPT !.pc = "cmdError",
                                      !.tgSends = @ + 1]
  /\ inboundFrame

StickerMessage_NoFallback(m, r) ==
  [m EXCEPT !.sticker = IF r.status = "returned" THEN r.ret ELSE MediaBuffer]

\* mediaMessage of a sticker after the call r of
\* convertTelegramStickerToWebP: the converted sticker, or the downloaded
\* buffer as image when the call threw
StickerMessage(m, r) ==
  IF r.status = "returned" THEN [m EXCEPT !.sticker = r.ret]
  ELSE [m EXCEPT !.image = MediaBuffer, !.sticker = None]

\* the file of a media message is downloaded, or getFileLink or the
\* download fails; a sticker is then converted, and the media message is
\* sent to the source network
TgDownloadResp ==
  /\ inbound.pc = "download"
  /\ \/ \* failed: the catch of the media block, sendConfirmation(.., false)
        /\ inbound' = [inbound EXCEPT !.pc = "ackReact", !.acks = <<"fail">>]
        /\ UNCHANGED <<scratch, conv>>
     \/ \* downloaded, no source client: the text branch is reached and
        \* ends in sendConfirmation(.., false)
        /\ ~inbound.waUp
        /\ inbound' = [inbound EXCEPT !.pc = "ackReact", !.acks = <<"fail">>]
        /\ UNCHANGED <<scratch, conv>>
     \/ \* a photo: mediaMessage.image = mediaBuffer
        /\ inbound.waUp /\ inbound.kind = "photo"
        /\ inbound' = [inbound EXCEPT !.pc = "waSend", !.waSends = @ + 1,
                                      !.image = MediaBuffer]
        /\ UNCHANGED <<scratch, conv>>
     \/ \* a sticker: converted, or sent as image when the conversion threw
        /\ inbound.waUp /\ inbound.kind = "sticker"
        /\ \E o \in FsOutcomes :
             LET r == ConvertTelegramStickerToWebP(ffmpegAvailable,
                        inbound.animated, scratch, MediaBuffer, 1, o)
             IN /\ scratch' = r.fs
                /\ conv' = ConvRecord("convertTelegramStickerToWebP",
                                      inbound.animated, MediaBuffer, r)
                /\ inbound' = [StickerMessage(inbound, r)
                                 EXCEPT !.pc = "waSend",
                                        !.waSends = @ + 1]
  /\ UNCHANGED <<createTopics, statusTopicId, callTopicId, loadPc, loaded,
                 nextThread, statusMessageMapping, event, spCreates,
                 sendConfirmation, ffmpegAvailable, forwardMedia, route>>
  /\ UNCHANGED forwardVars

\* the reaction sent to the status sender answers; setReaction follows
TgStReactResp ==
  /\ inbound.pc = "stReact"
  /\ \/ inbound' = [inbound EXCEPT !.pc = "stAck", !.acks = <<"ok">>]
     \/ inbound' = [inbound EXCEPT !.pc = "stAck", !.acks = <<"fail">>]
  /\ inboundFrame

\* setReaction of the status branch answers; its result is not used
TgStAckResp ==
  /\ inbound.pc = "stAck"
  /\ inbound' = [inbound EXCEPT !.pc = "done"]
  /\ inboundFrame

\* the hint answers; a rejection ends in the outer catch
TgHintResp ==
  /\ inbound.pc = "stHint"
  /\ inbound' = [inbound EXCEPT !.pc = "done"]
  /\ inboundFrame

SendFailed_FallThrough(m) ==
  IF m.waSends < 2 THEN [m EXCEPT !.pc = "waSend", !.waSends = @ + 1]
  ELSE [m EXCEPT !.pc = "ackReact", !.acks = <<"fail">>]

\* the catch of the contact, location, media or text block:
\* sendConfirmation(.., false), and the handler returns
SendFailed(m) == [m EXCEPT !.pc = "ackReact", !.acks = <<"fail">>]

\* global.bot.sendMessage(whatsappJid, ...) of the contact, location,
\* media or text block answers; sendConfirmation requests the matching
\* reaction
TgWaSendResp ==
  /\ inbound.pc = "waSend"
  /\ \/ inbound' = [inbound EXCEPT !.pc = "ackReact", !.acks = <<"ok">>]
     \/ inbound' = SendFailed(inbound)
  /\ inboundFrame

\* setReaction of sendConfirmation answers; when it failed and
\* config.telegram.sendConfirmation is set, a text confirmation is sent
TgAckReactResp ==
  /\ inbound.pc = "ackReact"
  /\ \/ inbound' = [inbound EXCEPT !.pc = "done", !.reacted = TRUE]
     \/ inbound' = IF sendConfirmation
                   THEN [inbound EXCEPT !.pc = "ackText",
                                        !.tgSends = inbound.tgSends + 1]
                   ELSE [inbound EXCEPT !.pc = "done"]
  /\ inboundFrame

\* the text confirmation answers; a failure is logged
TgAckTextResp ==
  /\ inbound.pc = "ackText"
  /\ inbound' = [inbound EXCEPT !.pc = "done"]
  /\ inboundFrame

Next ==
  \/ LoadAssign
  \/ LoadFail
  \/ \E k \in Tasks : Start(k)
  \/ \E k \in Tasks : Create1Resp(k)
  \/ \E k \in Tasks : Save1Resp(k)
  \/ \E k \in Tasks : InfoSendResp(k)
  \/ \E k \in Tasks : PinResp(k)
  \/ \E k \in Tasks : Create2Resp(k)
  \/ \E k \in Tasks : Save2Resp(k)
  \/ \E k \in Tasks : GocReturn(k)
  \/ \E k \in Tasks : Send1Resp(k)
  \/ \E k \in Tasks : Send2Resp(k)
  \/ \E k \in Tasks : SwrReturn(k)
  \/ \E k \in Tasks : SaveRecordsResp(k)

Spec == Init /\ [][Next]_vars

\* the same handlers with one inbound message handled at a time
SeqNext ==
  \/ LoadAssign
  \/ LoadFail
  \/ \E k \in Tasks : StartAlone(k)
  \/ \E k \in Tasks : Create1Resp(k)
  \/ \E k \in Tasks : Save1Resp(k)
  \/ \E k \in Tasks : InfoSendResp(k)
  \/ \E k \in Tasks : PinResp(k)
  \/ \E k \in Tasks : Create2Resp(k)
  \/ \E k \in Tasks : Save2Resp(k)
  \/ \E k \in Tasks : GocReturn(k)
  \/ \E k \in Tasks : Send1Resp(k)
  \/ \E k \in Tasks : Send2Resp(k)
  \/ \E k \in Tasks : SwrReturn(k)
  \/ \E k \in Tasks : SaveRecordsResp(k)

SeqSpec == Init /\ [][SeqNext]_vars

\* one message at a time, with or without the sender's name
NamedNext ==
  \/ LoadAssign
  \/ LoadFail
  \/ \E k \in Tasks : StartNamed(k)
  \/ \E k \in Tasks : Create1Resp(k)
  \/ \E k \in Tasks : Save1Resp(k)
  \/ \E k \in Tasks : InfoSendResp(k)
  \/ \E k \in Tasks : PinResp(k)
  \/ \E k \in Tasks : Create2Resp(k)
  \/ \E k \in Tasks : Save2Resp(k)
  \/ \E k \in Tasks : GocReturn(k)
  \/ \E k \in Tasks : Send1Resp(k)
  \/ \E k \in Tasks : Send2Resp(k)
  \/ \E k \in Tasks : SwrReturn(k)
  \/ \E k \in Tasks : SaveRecordsResp(k)

NamedSpec == Init /\ [][NamedNext]_vars

\* the status and call handlers with the startup load
SpecialNext ==
  \/ LoadAssign
  \/ LoadFail
  \/ \E e \in Events : EvStart(e)
  \/ \E e \in Events : SpCreateResp(e)
  \/ \E e \in Events : SpSaveResp(e)
  \/ \E e \in Events : SpInfoResp(e)
  \/ \E e \in Events : EvSendResp(e)

SpecialSpec == Init /\ [][SpecialNext]_vars

\* the destination-message handler, with the startup load and status and
\* call events handled one at a time
BridgeNext ==
  \/ LoadAssign
  \/ LoadFail
  \/ \E e \in Events : EvStartAlone(e)
  \/ \E e \in Events : SpCreateResp(e)
  \/ \E e \in Events : SpSaveResp(e)
  \/ \E e \in Events : SpInfoResp(e)
  \/ \E e \in Events : EvSendResp(e)
  \/ TgStart
  \/ TgStReactResp
  \/ TgStAckResp
  \/ TgHintResp
  \/ TgWaSendResp
  \/ TgAckReactResp
  \/ TgAckTextResp

BridgeSpec == BridgeInit /\ [][BridgeNext]_vars

\* the "message" listener on every message, commands included, with the
\* startup load and status and call events handled one at a time
DispatchNext ==
  \/ LoadAssign
  \/ LoadFail
  \/ \E e \in Events : EvStartAlone(e)
  \/ \E e \in Events : SpCreateResp(e)
  \/ \E e \in Events : SpSaveResp(e)
  \/ \E e \in Events : SpInfoResp(e)
  \/ \E e \in Events : EvSendResp(e)
  \/ TgDispatch
  \/ TgCommandResp
  \/ TgStReactResp
  \/ TgStAckResp
  \/ TgHintResp
  \/ TgWaSendResp
  \/ TgAckReactResp
  \/ TgAckTextResp

DispatchSpec == BridgeInit /\ [][DispatchNext]_vars

\* ------------------------------------------- calls of the transcoding functions
\* the state the transcoding and address functions do not touch
pureFrame ==
  /\ UNCHANGED <<createTopics, statusTopicId, callTopicId, loadPc, loaded,
                 nextThread, statusMessageMapping, event, inbound, spCreates,
                 sendConfirmation, ffmpegAvailable, forwardMedia>>
  /\ UNCHANGED forwardVars

\* one call of convertAnimatedWebPToMP4
CallConvertAnimatedWebPToMP4 ==
  /\ conv.calls < MaxCalls
  /\ \E b \in Bytes, o \in FsOutcomes :
       LET r == ConvertAnimatedWebPToMP4(ffmpegAvailable, scratch, b,
                                         conv.calls + 1, o)
       IN /\ scratch' = r.fs
          /\ conv' = ConvRecord("convertAnimatedWebPToMP4", TRUE, b, r)
  /\ UNCHANGED route
  /\ pureFrame

\* one call of convertTelegramStickerToWebP
CallConvertTelegramStickerToWebP ==
  /\ conv.calls < MaxCalls
  /\ \E b \in Bytes, isAnimated \in BOOLEAN, o \in FsOutcomes :
       LET r == ConvertTelegramStickerToWebP(ffmpegAvailable, isAnimated,
                                             scratch, b, conv.calls + 1, o)
       IN /\ scratch' = r.fs
          /\ conv' = ConvRecord("convertTelegramStickerToWebP", isAnimated,
                                b, r)
  /\ UNCHANGED route
  /\ pureFrame

\* one call of convertToVideoNote
CallConvertToVideoNote ==
  /\ conv.calls < MaxCalls
  /\ \E b \in Bytes, o \in FsOutcomes :
       LET r == ConvertToVideoNote(ffmpegAvailable, scratch, b,
                                   conv.calls + 1, o)
       IN /\ scratch' = r.fs
          /\ conv' = ConvRecord("convertToVideoNote", FALSE, b, r)
  /\ UNCHANGED route
  /\ pureFrame

ConvertNext ==
  \/ CallConvertAnimatedWebPToMP4
  \/ CallConvertTelegramStickerToWebP
  \/ CallConvertToVideoNote

ConvertSpec == ConvertInit /\ [][ConvertNext]_vars

\* ------------------------------------------------- the address derivations
\* forwardToTelegram derives the identifier of a message's conversation
DeriveIdentifier ==
  /\ route.pc = "none"
  /\ \E isGroup \in BOOLEAN :
       \E address \in IF isGroup THEN GroupAddresses ELSE SenderAddresses :
         route' = [NoRoute EXCEPT !.pc = "derived", !.isGroup = isGroup,
                                  !.address = address,
                                  !.identifier =
                                    IdentifierOf(isGroup, address)]
  /\ UNCHANGED <<scratch, conv>>
  /\ pureFrame

\* handleTelegramMessage derives the address of the identifier that the
\* thread of a destination message is mapped to
DeriveJid ==
  /\ route.pc = "derived"
  /\ route' = [route EXCEPT !.pc = "reversed",
                            !.jid = WhatsappJid(route.identifier)]
  /\ UNCHANGED <<scratch, conv>>
  /\ pureFrame

AddressNext ==
  \/ DeriveIdentifier
  \/ DeriveJid

AddressSpec == Init /\ [][AddressNext]_vars

\* ------------------------------------------- calls of the info functions
\* createAndPinUserInfo or createAndPinGroupInfo is called for any thread,
\* one call at a time; the record of a finished call is kept
CallCreateAndPin(k) ==
  /\ task[k].pc = "idle"
  /\ \A j \in Tasks : j < k => task[j].pc = "done"
  /\ \E i \in Idents, t \in Threads :
       LET r == [IdleTask EXCEPT !.identifier = i, !.created = t,
                                 !.caller = "pin"]
       IN task' = [task EXCEPT ![k] =
                     IF AlreadyPinned(pinnedMessages, t)
                     THEN [r EXCEPT !.pc = "done"]
                     ELSE [r EXCEPT !.pc = "infoSend", !.info = TRUE]]
  /\ UNCHANGED <<createTopics, topicMapping, reverseTopicMapping,
                 statusTopicId, callTopicId, pinnedMessages, store, loadPc,
                 loaded, nextThread, lastCall, contactsCache,
                 chatMessageMapping>>
  /\ UNCHANGED bridgeVars

\* the function returns to its caller
PinReturn(k) ==
  /\ task[k].pc = "gocRet" /\ task[k].caller = "pin"
  /\ task' = [task EXCEPT ![k] = [task[k] EXCEPT !.pc = "done"]]
  /\ UNCHANGED <<createTopics, topicMapping, reverseTopicMapping,
                 statusTopicId, callTopicId, pinnedMessages, store, loadPc,
                 loaded, nextThread, lastCall, contactsCache,
                 chatMessageMapping>>
  /\ UNCHANGED bridgeVars

PinNext ==
  \/ \E k \in Tasks : CallCreateAndPin(k)
  \/ \E k \in Tasks : InfoSendResp(k)
  \/ \E k \in Tasks : PinResp(k)
  \/ \E k \in Tasks : PinReturn(k)

PinSpec == Init /\ [][PinNext]_vars

\* --------------------------------------------- stickers and texts forwarded
\* a text or a sticker, animated or not, arrives while no other message is
\* in flight
StartMedia(k) ==
  /\ \A j \in Tasks \ {k} : task[j].pc \in {"idle", "done"}
  /\ BeginWith(k, {"text", "sticker"}, {""}, BOOLEAN)

\* the transcoder installed or not, media forwarded or not
MediaInit ==
  /\ InitRegistry
  /\ sendConfirmation = FALSE
  /\ ffmpegAvailable \in BOOLEAN
  /\ forwardMedia \in BOOLEAN
  /\ scratch = EmptyScratch
  /\ InitCalls

\* the steps of the handler of message k
Progress(k) ==
  \/ Create1Resp(k)
  \/ Save1Resp(k)
  \/ InfoSendResp(k)
  \/ PinResp(k)
  \/ Create2Resp(k)
  \/ Save2Resp(k)
  \/ GocReturn(k)
  \/ Send1Resp(k)
  \/ Send2Resp(k)
  \/ SwrReturn(k)
  \/ SaveRecordsResp(k)
  \/ DownloadResp(k)
  \/ StickerSendResp(k)
  \/ PhotoSendResp(k)

MediaNext ==
  \/ \E k \in Tasks : StartMedia(k)
  \/ \E k \in Tasks : Progress(k)

MediaSpec == MediaInit /\ [][MediaNext]_vars

\* ------------------------------------- replies to a forwarded message
\* the destination messages of a group member in a thread: any payload
\* kind, with or without reply, the source client connected or not; only
\* a text message has msg.text
PayloadMessages ==
  { [IdleInbound EXCEPT !.thread = th, !.reply = reply, !.waUp = waUp,
                        !.kind = kind,
                        !.text = IF kind = "text" THEN @ ELSE <<>>] :
      th \in Threads, reply \in {NoMsg, TextMsgId(1)}, waUp \in BOOLEAN,
      kind \in PayloadKinds }
  \cup { [IdleInbound EXCEPT !.thread = th, !.reply = reply, !.waUp = waUp,
                             !.kind = "sticker", !.animated = TRUE,
                             !.text = <<>>] :
           th \in Threads, reply \in {NoMsg, TextMsgId(1)},
           waUp \in BOOLEAN }

\* ... any of them arrives
TgStartPayload == TgStartOn(PayloadMessages)

\* the transcoder installed or not, the text confirmation configured or not
ReplyInit ==
  /\ InitRegistry
  /\ sendConfirmation \in BOOLEAN
  /\ ffmpegAvailable \in BOOLEAN
  /\ forwardMedia = TRUE
  /\ scratch = EmptyScratch
  /\ InitCalls

\* one source text is forwarded while one destination message is handled
ReplyNext ==
  \/ \E k \in {1} : Start(k)
  \/ \E k \in {1} : Create1Resp(k)
  \/ \E k \in {1} : Save1Resp(k)
  \/ \E k \in {1} : InfoSendResp(k)
  \/ \E k \in {1} : PinResp(k)
  \/ \E k \in {1} : Create2Resp(k)
  \/ \E k \in {1} : Save2Resp(k)
  \/ \E k \in {1} : GocReturn(k)
  \/ \E k \in {1} : Send1Resp(k)
  \/ \E k \in {1} : Send2Resp(k)
  \/ \E k \in {1} : SwrReturn(k)
  \/ \E k \in {1} : SaveRecordsResp(k)
  \/ TgStartPayload
  \/ TgDownloadResp
  \/ TgWaSendResp
  \/ TgAckReactResp
  \/ TgAckTextResp

ReplySpec == ReplyInit /\ [][ReplyNext]_vars

TypeOK ==
  /\ topicMapping \in [Idents -> Threads \cup {NoThread}]
  /\ reverseTopicMapping \in [Threads -> Idents \cup {Absent}]
  /\ nextThread \in 2..(MaxCreated + 2)

\* ------------------------------------------------------------------ claims

\* C1: in every reachable state topicMapping and reverseTopicMapping are
\* strict inverses: topicMapping[i] = t exactly when
\* reverseTopicMapping[t] = i.
MappingsAreInverse ==
  \A i \in Idents, t \in Threads :
    (topicMapping[i] = t) <=> (reverseTopicMapping[t] = i)

\* C2: once getOrCreateTopic(i) has returned thread t, topicMapping[i] is t
\* and reverseTopicMapping[t] is i until the delete step of
\* sendToTelegramWithRetry for i runs (lastCall[i] is cleared by that step).
ReturnedThreadStays ==
  \A i \in Idents :
    lastCall[i].ret # NoThread =>
      /\ topicMapping[i] = lastCall[i].ret
      /\ reverseTopicMapping[lastCall[i].ret] = i

OneCreationInFlight ==
  \A k1, k2 \in Tasks :
    (/\ k1 # k2
     /\ task[k1].pc \in {"create1", "create2"}
     /\ task[k2].pc \in {"create1", "create2"}) =>
      task[k1].identifier # task[k2].identifier

\* C5: in a sendToTelegramWithRetry call for a truthy identifier whose
\* first send, into a thread, failed with a thread-missing error: the
\* mapping is removed once and getOrCreateTopic is called once, that call
\* issues a creation and returns the created thread or null; a retried send
\* carries the returned thread id; a failed retry raises the error of the
\* retry; there are at most two sends.
RecreatesOnceAndRetriesInNewThread ==
  \A k \in Tasks :
    LET r == task[k] IN
    /\ (r.pc \in {"create1", "save1", "infoSend", "pin", "create2", "save2",
                   "gocRet"} /\ r.caller = "retry") =>
         /\ r.firstErr = ErrThreadNotFound
         /\ r.inval = 1 /\ r.gocCalls = 1 /\ r.sends = 1
         /\ r.createCount >= 1
         /\ (r.pc = "gocRet" => r.ret \in {NoThread, r.created})
         /\ (r.pc = "gocRet" /\ r.ret # NoThread => r.ret # r.topicId)
    /\ r.pc = "send2" =>
         /\ r.sends = 2 /\ r.inval = 1 /\ r.gocCalls = 1
         /\ r.newTopicId # NoThread
         /\ r.thread = r.newTopicId
    /\ (/\ r.pc = "swrDone"
        /\ r.firstErr = ErrThreadNotFound
        /\ Truthy(r.identifier)
        /\ r.topicId # NoThread) =>
         /\ r.inval = 1 /\ r.gocCalls = 1
         /\ r.sends = IF r.newTopicId = NoThread THEN 1 ELSE 2
         /\ (r.sends = 2 => r.thread = r.newTopicId /\ r.raised = r.retryErr)
         /\ (r.sends = 1 => r.raised = r.firstErr)

\* the retried send of a recreation failed too, with another error than
\* the first send
SecondSendFailedToo ==
  \E k \in Tasks :
    /\ task[k].pc = "swrDone"
    /\ task[k].sends = 2
    /\ task[k].inval = 1
    /\ task[k].thread = task[k].newTopicId
    /\ task[k].firstErr = ErrThreadNotFound
    /\ task[k].raised = ErrTimeout

\* C6: when the first send fails with an error outside the thread-missing
\* class, or for a falsy identifier, sendToTelegramWithRetry raises that
\* error after this one send, removes no mapping, calls no
\* getOrCreateTopic, and topicMapping and reverseTopicMapping are unchanged.
OtherFailureIsRaisedUnchanged ==
  [][\A k \in Tasks :
       (/\ task[k].pc = "send1"
        /\ task'[k].firstErr # None
        /\ (task'[k].firstErr = ErrTimeout \/ task[k].identifier = "")) =>
         /\ task'[k].pc = "swrDone"
         /\ task'[k].raised = task'[k].firstErr
         /\ task'[k].sends = 1
         /\ task'[k].inval = 0
         /\ task'[k].gocCalls = 0
         /\ topicMapping' = topicMapping
         /\ reverseTopicMapping' = reverseTopicMapping
         /\ nextThread' = nextThread]_vars

\* a send into the mapped thread of a group failed with a timeout and the
\* timeout was raised
TimeoutRaised ==
  \E k \in Tasks :
    /\ task[k].pc = "swrDone"
    /\ task[k].identifier = "group_g1"
    /\ task[k].topicId # NoThread
    /\ topicMapping[task[k].identifier] = task[k].topicId
    /\ task[k].firstErr = ErrTimeout
    /\ task[k].raised = ErrTimeout
    /\ task[k].sends = 1

\* C7: whenever getOrCreateTopic(i) returns null with topic creation
\* enabled, topicMapping has no entry for i and no thread of
\* reverseTopicMapping points to i.
NullMeansUnresolved ==
  \A k \in Tasks :
    (createTopics /\ task[k].pc = "gocRet" /\ task[k].ret = NoThread) =>
      /\ topicMapping[task[k].identifier] = NoThread
      /\ \A t \in Threads : reverseTopicMapping[t] # task[k].identifier

\* C8: one getOrCreateTopic invocation issues at most two createForumTopic
\* requests, and a second one only after the first request itself failed
\* with a duplicate-name error.
SecondCreationOnlyAfterDuplicateName ==
  \A k \in Tasks :
    /\ task[k].createCount <= 2
    /\ task[k].createCount = 2 => task[k].first = "dup"

\* C9: a getOrCreateTopic invocation that created a thread and returns it
\* has called the store's save and has posted (or tried to post) the info
\* message in the new thread.
CreatedThreadIsSavedAndIntroduced ==
  \A k \in Tasks :
    (/\ task[k].pc = "gocRet"
     /\ task[k].ret # NoThread
     /\ task[k].ret = task[k].created) =>
      /\ task[k].saved
      /\ task[k].info

\* C10: the delete step for identifier i removes the forward entry of i
\* and the reverse entry of the thread i was mapped to, leaves the store
\* and the entries of every other identifier unchanged, and the
\* getOrCreateTopic call that follows issues a creation request.
InvalidateRemovesBothEntries ==
  [][\A k \in Tasks :
       (task[k].pc = "send1" /\ task'[k].inval = task[k].inval + 1) =>
         LET i == task[k].identifier IN
         /\ topicMapping'[i] = NoThread
         /\ \A t \in Threads :
              /\ topicMapping[i] = t => reverseTopicMapping'[t] = Absent
              /\ reverseTopicMapping[t] \notin {i, Absent} =>
                   reverseTopicMapping'[t] = reverseTopicMapping[t]
         /\ \A j \in Idents \ {i} : topicMapping'[j] = topicMapping[j]
         /\ store' = store
         /\ task'[k].pc = "create1"]_vars

\* C11: for each special kind at most one createForumTopic request is made
\* in the bridge lifetime, and statusTopicId and callTopicId never change
\* once they are set.
SpecialTopicCreatedOnce ==
  [][/\ \A kind \in SpecialKinds : spCreates'[kind] <= 1
     /\ statusTopicId # NoThread => statusTopicId' = statusTopicId
     /\ callTopicId # NoThread => callTopicId' = callTopicId]_vars

\* C12: with thread creation enabled, a message whose getOrCreateTopic call
\* returned no thread is dropped: forwardToTelegram issues no send for it.
UnresolvedMessageIsDropped ==
  \A k \in Tasks :
    (createTopics /\ task[k].pc \in {"send1", "send2", "swrDone"})
      => task[k].topicId # NoThread

\* C13: chatMessageMapping changes only when a send of forwardToTelegram
\* succeeded, the new entry maps the returned message id to the id of the
\* forwarded message, and every send that succeeded leaves such an entry.
CorrelationIffDelivered ==
  [][/\ \A d \in MsgIds :
          chatMessageMapping'[d] # chatMessageMapping[d] =>
            \E k \in Tasks :
              /\ task[k].pc = "swrDone" /\ task[k].raised = None
              /\ d \in {TextMsgId(k), ContactMsgId(k)}
              /\ chatMessageMapping'[d] = SourceMsgId(k)
     /\ \A k \in Tasks :
          (task[k].pc = "swrDone" /\ task'[k].pc # "swrDone"
           /\ task[k].raised = None) =>
            chatMessageMapping'[IF task[k].phase = "text" THEN TextMsgId(k)
                                ELSE ContactMsgId(k)] = SourceMsgId(k)]_vars

\* C14: when the text delivery of a message failed, forwardToTelegram does
\* not go on to saveUser and saveMessage.
RecordsSavedOnlyAfterDelivery ==
  [][\A k \in Tasks :
       (task[k].pc = "swrDone" /\ task[k].phase = "text"
        /\ task[k].raised # None) => task'[k].pc # "saveUser"]_vars

\* the getOrCreateTopic call of an individual text message returns to
\* forwardToTelegram after a creation in which every request succeeded
FreshCreationReturns(k) ==
  /\ task[k].pc = "gocRet" /\ task'[k].pc # "gocRet"
  /\ task[k].caller = "fwd" /\ task[k].type = "text"
  /\ ~StartsWithGroup(task[k].identifier)
  /\ task[k].startMapped = NoThread
  /\ task[k].first = "ok" /\ task[k].saveOk

\* ... and the text send of such a message returns without any failure
FirstTextSendReturns(k) ==
  /\ task[k].pc = "swrDone" /\ task'[k].pc # "swrDone"
  /\ task[k].phase = "text" /\ task[k].firstErr = None
  /\ ~StartsWithGroup(task[k].identifier)

OneCreationOneDelivery(k) ==
  /\ FreshCreationReturns(k) =>
       /\ task[k].createCount = 1
       /\ task[k].ret = task[k].created
       /\ task'[k].pc = "send1" /\ task'[k].thread = task[k].created
  /\ FirstTextSendReturns(k) =>
       /\ task[k].sends = 1 /\ task[k].inval = 0
       /\ task[k].thread = task[k].topicId
       /\ chatMessageMapping'[TextMsgId(k)] = SourceMsgId(k)

\* C15 (as stated): an individual text message from a number without topic,
\* every request succeeding, causes one createForumTopic request, named
\* with the fallback label when the message carries no name, one text
\* delivery into the created thread and one correlation entry.
FreshTextNamedByFallback ==
  [][\A k \in Tasks :
       /\ OneCreationOneDelivery(k)
       /\ (FreshCreationReturns(k) /\ task[k].name = "") =>
            task[k].topicName = FallbackLabel(task[k].identifier)]_vars

\* C15 (amended): the same, the thread being named with the fallback label
\* when the message carries no name and no name is cached for the number.
FreshTextNamedByFallbackUnlessCached ==
  [][\A k \in Tasks :
       /\ OneCreationOneDelivery(k)
       /\ (FreshCreationReturns(k) /\ task[k].name = ""
           /\ task[k].startCached = "") =>
            task[k].topicName = FallbackLabel(task[k].identifier)]_vars

\* C15 witness: the text of a nameless individual message was delivered by
\* its first send into the thread that the preceding getOrCreateTopic call
\* created with one request under the fallback label
FreshTextDelivered ==
  \E k \in Tasks :
    /\ task[k].pc = "swrDone" /\ task[k].phase = "text"
    /\ task[k].firstErr = None /\ task[k].sends = 1
    /\ task[k].name = "" /\ task[k].identifier = "15551234567"
    /\ task[k].thread = topicMapping[task[k].identifier]
    /\ lastCall[task[k].identifier] = [ret |-> task[k].thread, n |-> 1]
    /\ contactsCache[task[k].identifier] = "Contact 15551234567"

\* the text a pending text send of task k carries
SentText(k) ==
  MessageText(task[k].identifier, task[k].name, task[k].type)

TextSendPending(k) ==
  task[k].pc \in {"send1", "send2"} /\ task[k].phase = "text"

\* C16 (as stated): the text delivered for a group message is the sender's
\* name, ": " and the body; for an individual message it is the body.
GroupTextIsNameColonBody ==
  \A k \in Tasks :
    TextSendPending(k) =>
      SentText(k) =
        IF StartsWithGroup(task[k].identifier)
        THEN <<task[k].name, ": ", BodyOf(task[k].type)>>
        ELSE <<BodyOf(task[k].type)>>

\* C16 (amended): the text delivered for a group message is the bust glyph,
\* the sender's name in bold markup, ": " and the body, or a placeholder
\* when the message has no body; for an individual message it is the body,
\* and a text is sent only when there is one.
GroupTextIsDecoratedNameAndBody ==
  \A k \in Tasks :
    TextSendPending(k) =>
      IF StartsWithGroup(task[k].identifier)
      THEN SentText(k) =
             <<"(bust) **", task[k].name, "**: ",
               IF task[k].type = "text" THEN "hi" ELSE "_sent a message_">>
      ELSE task[k].type = "text" /\ SentText(k) = <<"hi">>

\* C16 witness: the text of Alice's group message "hi" is being sent
GroupTextOfAliceIsSent ==
  \E k \in Tasks :
    /\ TextSendPending(k)
    /\ task[k].identifier = "group_g1" /\ task[k].name = "Alice"
    /\ task[k].type = "text"

\* handleTelegramMessage starts on a destination message
InboundStarts == inbound.pc = "idle" /\ inbound'.pc # "idle"

\* ... sent by a member of the configured group
FromMember(m) == m.inGroup /\ ~m.fromBot

\* nothing was requested for the message the handler has just dispatched
NothingRequested(m) ==
  /\ m.pc = "done"
  /\ m.waSends = 0 /\ m.acks = <<>> /\ m.tgSends = 0

RegistryUntouched ==
  UNCHANGED <<topicMapping, reverseTopicMapping, statusTopicId, callTopicId,
              pinnedMessages, chatMessageMapping, statusMessageMapping>>

\* a handler that has finished does nothing more
DoneStaysDone == inbound.pc = "done" => inbound' = inbound

\* C17: a destination message in the call thread causes no source-network
\* send, no acknowledgment, no destination send and no change of registry
\* or correlation state, whatever it replies to.
CallThreadMessageIsDropped ==
  [][/\ (InboundStarts /\ inbound'.thread # NoThread
         /\ inbound'.thread = callTopicId) =>
           NothingRequested(inbound') /\ RegistryUntouched
     /\ DoneStaysDone]_vars

\* C17 witness: a reply posted by a member in the call thread was dropped
ReplyInCallThreadDropped ==
  /\ inbound.pc = "done" /\ inbound.class = "call"
  /\ inbound.thread = callTopicId /\ inbound.reply # NoMsg
  /\ FromMember(inbound) /\ inbound.waUp

\* the hint of the status branch, and nothing else
OnlyTheHint ==
  /\ (inbound.pc = "idle" /\ inbound'.pc = "stHint") =>
       inbound'.tgSends = 1 /\ inbound'.waSends = 0 /\ inbound'.acks = <<>>
  /\ (inbound.pc = "stHint" /\ inbound' # inbound) =>
       /\ inbound'.pc = "done" /\ inbound'.tgSends = inbound.tgSends
       /\ inbound'.waSends = 0 /\ inbound'.acks = <<>>

\* C18 (as stated): a destination message in the status thread that is no
\* reply, or replies to an untracked message, causes one hint in the status
\* thread and no send to the source network.
StatusThreadMessageGetsHint ==
  [][/\ (InboundStarts /\ inbound'.thread # NoThread
         /\ inbound'.thread = statusTopicId
         /\ ~(inbound'.reply # NoMsg
              /\ statusMessageMapping[inbound'.reply] # NoStatus)) =>
           inbound'.pc = "stHint"
     /\ OnlyTheHint
     /\ DoneStaysDone]_vars

\* C18 (amended): the same for a message that a member of the configured
\* group posted and whose text does not start with "/"; messages of bots
\* and of other chats are skipped unanswered, and a command gets the answer
\* of the command handler and no hint; none causes a source-network send.
MemberStatusThreadMessageGetsHint ==
  [][/\ (InboundStarts /\ inbound'.thread # NoThread
         /\ inbound'.thread = statusTopicId
         /\ ~(inbound'.reply # NoMsg
              /\ statusMessageMapping[inbound'.reply] # NoStatus)) =>
           IF inbound'.text[1] = "/"
           THEN /\ inbound'.pc \in {"cmdReply", "done"}
                /\ inbound'.waSends = 0 /\ inbound'.acks = <<>>
           ELSE IF FromMember(inbound') THEN inbound'.pc = "stHint"
           ELSE NothingRequested(inbound')
     /\ (inbound.class = "command" /\ inbound'.thread = statusTopicId) =>
          (inbound'.waSends = 0 /\ inbound'.pc # "stHint")
     /\ OnlyTheHint
     /\ DoneStaysDone]_vars

\* C18 witness: a member's reply to an untracked message in the status
\* thread was answered with the hint alone
UntrackedStatusReplyHinted ==
  /\ inbound.pc = "done" /\ inbound.class = "statusOther"
  /\ inbound.thread = statusTopicId /\ inbound.reply # NoMsg
  /\ statusMessageMapping[inbound.reply] = NoStatus
  /\ inbound.tgSends = 1 /\ inbound.waSends = 0 /\ inbound.acks = <<>>

\* C19: a member's reply in the status thread to a tracked status message
\* results in one reaction send to the recorded sender, followed by one
\* acknowledgment whose glyph matches the outcome.
TrackedStatusReplyIsAcknowledged ==
  [][/\ (InboundStarts /\ FromMember(inbound')
         /\ inbound'.thread # NoThread /\ inbound'.thread = statusTopicId
         /\ inbound'.reply # NoMsg
         /\ statusMessageMapping[inbound'.reply] # NoStatus) =>
           /\ inbound'.pc = "stReact" /\ inbound'.waSends = 1
           /\ inbound'.waTarget =
                <<statusMessageMapping[inbound'.reply][1], "@s.whatsapp.net">>
     /\ (inbound.pc = "stReact" /\ inbound' # inbound) =>
           /\ inbound'.pc = "stAck" /\ inbound'.waSends = 1
           /\ inbound'.acks \in {<<"ok">>, <<"fail">>}
     /\ (inbound.pc = "stAck" /\ inbound' # inbound) =>
           /\ inbound'.pc = "done" /\ inbound'.acks = inbound.acks
           /\ inbound'.waSends = 1]_vars

\* C20: a destination message in a thread that is neither the status nor
\* the call thread and has no entry in reverseTopicMapping is ignored.
UntrackedThreadMessageIsIgnored ==
  [][/\ (InboundStarts /\ inbound'.thread # NoThread
         /\ inbound'.thread # statusTopicId /\ inbound'.thread # callTopicId
         /\ reverseTopicMapping[inbound'.thread] = Absent) =>
           NothingRequested(inbound') /\ RegistryUntouched
     /\ DoneStaysDone]_vars

\* C20 witness: a member's message in an untracked thread was ignored while
\* the source client was connected
UntrackedThreadMessageIgnored ==
  /\ inbound.pc = "done" /\ inbound.class = "untracked"
  /\ inbound.thread # NoThread /\ FromMember(inbound) /\ inbound.waUp
  /\ reverseTopicMapping[inbound.thread] = Absent
  /\ inbound.waSends = 0 /\ inbound.acks = <<>> /\ inbound.tgSends = 0

\* C25: after every call of a transcoding function, whether it returned or
\* threw, the temp directory holds exactly the files it held before the
\* call.
ScratchFilesAreRemoved ==
  conv.fn # "none" => scratch.files = conv.before.files

\* C25 witness: a call whose output file could not be read, made while a
\* file of an earlier process was in the directory, left only that file
FailedReadLeavesNoFile ==
  /\ conv.fn # "none" /\ conv.err = ErrRead
  /\ conv.writes = 1 /\ conv.execs = 1
  /\ conv.before.files = {OutputFile(0, "mp4")}
  /\ scratch.files = conv.before.files

\* C26: convertToVideoNote always returns; it returns the input bytes when
\* the transcoder is unavailable or a step failed, and other bytes only
\* when the transcoder ran successfully.
ConvertToVideoNoteNeverFails ==
  conv.fn = "convertToVideoNote" =>
    /\ conv.status = "returned"
    /\ (~ffmpegAvailable \/ conv.err # None) => conv.ret = conv.input
    /\ conv.ret # conv.input => (conv.execs = 1 /\ conv.err = None)

\* C27: with the capability flag false, convertAnimatedWebPToMP4, and
\* convertTelegramStickerToWebP for animated input, throw the
\* transcoder-unavailable error without having written a file or run the
\* transcoder.
UnavailableFailsBeforeAnyWork ==
  (/\ ~ffmpegAvailable
   /\ \/ conv.fn = "convertAnimatedWebPToMP4"
      \/ conv.fn = "convertTelegramStickerToWebP" /\ conv.isAnimated) =>
    /\ conv.status = "threw" /\ conv.err = ErrFFmpegUnavailable
    /\ conv.writes = 0 /\ conv.execs = 0
    /\ scratch = conv.before

\* C27 witness: an animated sticker was refused for lack of the transcoder
AnimatedStickerRefused ==
  /\ ~ffmpegAvailable
  /\ conv.fn = "convertTelegramStickerToWebP" /\ conv.isAnimated
  /\ conv.status = "threw" /\ conv.err = ErrFFmpegUnavailable
  /\ conv.writes = 0 /\ conv.execs = 0

\* C22: the address derived from the identifier of a conversation is the
\* address that identifier was derived from.
ReverseAddressIsSourceAddress ==
  route.pc = "reversed" => route.jid = route.address

\* C29: no two forwardToTelegram invocations for one identifier are in
\* progress (suspended between getOrCreateTopic and their last send) at
\* the same time.
OneSequencePerIdentifier ==
  \A k1, k2 \in Tasks :
    (/\ k1 # k2
     /\ task[k1].pc \notin {"idle", "done"}
     /\ task[k2].pc \notin {"idle", "done"}) =>
      task[k1].identifier # task[k2].identifier

\* C21: every send attempt made for a message of a conversation thread
\* ends with an acknowledgment: a reaction that was set, or, when the
\* reaction could not be set, a confirmation text
EverySendIsAcknowledged ==
  (inbound.class = "chat" /\ inbound.waSends = 1 /\ inbound.pc = "done")
    => (inbound.reacted \/ inbound.tgSends > 0)

\* C23: the message sent to the source network carries a quoted reference
\* exactly when the destination message replies to an id recorded in
\* chatMessageMapping, the quoted id being the recorded source id, whatever
\* the payload; the reference looked up at the dispatch is the one sent
ReplyLinkage ==
  [][(inbound' # inbound /\ inbound'.class = "chat") =>
       LET reply == inbound'.reply
           tracked == reply # NoMsg /\ chatMessageMapping[reply] # NoMsg
       IN IF inbound.pc = "idle"
          THEN /\ tracked => inbound'.quoted = chatMessageMapping[reply]
               /\ ~tracked => inbound'.quoted = NoMsg
          ELSE inbound'.quoted = inbound.quoted]_vars

\* a photo replying to the forwarded text is sent with the quoted source id
QuotedPhotoSent ==
  /\ inbound.kind = "photo" /\ inbound.waSends = 1
  /\ inbound.reply = TextMsgId(1)
  /\ inbound.quoted = SourceMsgId(1)

\* C30: a sticker of the destination surface whose conversion threw is
\* still sent, with the downloaded bytes as image and without sticker
\* field; a converted one is sent as sticker without image field
StickerFallsBackToImage ==
  (inbound.kind = "sticker" /\ conv.fn = "convertTelegramStickerToWebP") =>
    /\ inbound.waSends = 1
    /\ conv.status = "threw" =>
         (inbound.image = conv.input /\ inbound.sticker = None)
    /\ conv.status = "returned" =>
         (inbound.sticker = conv.ret /\ inbound.image = None)

\* an animated sticker is sent as image when the transcoder is not installed
UnavailableStickerSentAsImage ==
  /\ inbound.kind = "sticker" /\ inbound.animated
  /\ conv.err = ErrFFmpegUnavailable
  /\ inbound.waSends = 1 /\ inbound.pc = "done"
  /\ inbound.image = MediaBuffer

\* C24: without the transcoder, the forward of an animated sticker sends a
\* photo as its payload (or nothing when the download failed), and calls no
\* transcoding function
AnimatedStickerGoesAsPhoto ==
  [][\A k \in Tasks :
       (/\ task[k].pc = "download" /\ task[k].animated /\ ~ffmpegAvailable
        /\ task'[k] # task[k])
         => /\ task'[k].pc \in {"sendPhoto", "done"}
            /\ conv' = conv]_vars

\* C28: no handler ends by raising: a failure of a call ends in a catch
\* block, a handler that has not finished has a next step, and the next
\* message can be taken once the earlier ones are finished, however they
\* ended
NoFailureEscapes ==
  /\ \A k \in Tasks : task[k].pc # "raised"
  /\ \A e \in Events : event[e].pc # "raised"
  /\ inbound.pc # "raised"
  /\ \A k \in Tasks :
       task[k].pc \notin {"idle", "done"} => ENABLED Progress(k)
  /\ \A e \in Events :
       event[e].pc \notin {"idle", "done"} =>
         ENABLED (SpCreateResp(e) \/ SpSaveResp(e) \/ SpInfoResp(e)
                    \/ EvSendResp(e))
  /\ inbound.pc \notin {"idle", "done"} =>
       ENABLED (TgStReactResp \/ TgStAckResp \/ TgHintResp
                  \/ TgDownloadResp \/ TgWaSendResp \/ TgAckReactResp
                  \/ TgAckTextResp)
  /\ \A k \in Tasks :
       (/\ task[k].pc = "idle"
        /\ \A j \in Tasks \ {k} : task[j].pc = "done" <=> j < k)
         => ENABLED StartMedia(k)

\* the conversion of the first sticker threw and its photo was not
\* delivered; the second sticker is on its way
SecondStickerSentAfterFailure ==
  /\ task[1].pc = "done" /\ task[2].pc = "sendSticker"
  /\ conv.calls = 1 /\ conv.status = "threw"
  /\ chatMessageMapping[MediaMsgId(1)] = NoMsg

\* C31: an info message pinned for a thread stays: the entry of
\* pinnedMessages is never cleared, and a call of createAndPinUserInfo or
\* createAndPinGroupInfo for a thread with an entry posts no message and
\* requests no pin, so the entry is not overwritten
PinnedOnce ==
  [][/\ \A t \in Threads : pinnedMessages[t] => pinnedMessages'[t]
     /\ \A k \in Tasks :
          (task'[k] # task[k] /\ task'[k].pc \in {"infoSend", "pin"})
            => ~pinnedMessages[task'[k].created]]_vars

\* the second call for a pinned thread returned without posting
SecondCallSkipped ==
  /\ task[1].pc = "done" /\ task[1].info
  /\ task[2].pc = "done" /\ ~task[2].info
  /\ task[2].created = task[1].created
  /\ pinnedMessages[task[2].created]

\* C32: a getOrCreateTopic call that fails leaves nothing behind: when a
\* call for identifier i returns null, the next message for i issues a
\* creation request again
FailureIsNotRemembered ==
  [][\A k \in Tasks :
       (/\ createTopics
        /\ task[k].pc # "gocRet" /\ task'[k].pc = "gocRet"
        /\ task'[k].ret = NoThread)
         => GocEnter([IdleTask EXCEPT !.identifier = task'[k].identifier],
                     "fwd", topicMapping', lastCall', contactsCache').pc
              = "create1"]_vars

\* the pending sends of the media block
MediaSendPcs == {"sendAnimation", "sendSticker", "sendPhoto"}

\* C33: a media delivery that fails with a thread-missing error for a
\* mapped identifier is followed by the invalidation of the mapping and the
\* creation of a new thread, as in sendToTelegramWithRetry
MediaSendRecreatesThread ==
  [][\A k \in Tasks :
       (/\ task[k].pc \in {"sendAnimation", "sendSticker"}
        /\ task'[k].pc # task[k].pc
        /\ chatMessageMapping' = chatMessageMapping
        /\ IsTopicError(task'[k].firstErr)
        /\ Truthy(task[k].identifier)
        /\ topicMapping[task[k].identifier] # NoThread)
         => /\ topicMapping'[task[k].identifier] = NoThread
            /\ task'[k].pc = "create1"]_vars

\* C36: every send of a forwardToTelegram invocation that follows a
\* recreation goes to the thread mapped to the identifier at that moment
SendsFollowRecreation ==
  \A k \in Tasks :
    (/\ \/ task[k].pc \in MediaSendPcs
        \/ task[k].pc = "send1" /\ task[k].phase = "contact"
     /\ topicMapping[task[k].identifier] # NoThread)
      => task[k].thread = topicMapping[task[k].identifier]

\* C34: the identifier of an individual conversation is made of digits
\* only, whatever the sender address
IndividualIdentifierIsDigits ==
  (route.pc # "none" /\ ~route.isGroup) =>
    \A n \in 1..Len(route.identifier) : route.identifier[n] \in Digits

\* C35: an entry of chatMessageMapping or of statusMessageMapping, once
\* written, is returned unchanged by every later lookup
CorrelationsAreKept ==
  [][\A d \in MsgIds :
       /\ chatMessageMapping[d] # NoMsg
            => chatMessageMapping'[d] = chatMessageMapping[d]
       /\ statusMessageMapping[d] # NoStatus
            => statusMessageMapping'[d] = statusMessageMapping[d]]_vars

\* the entries of two messages are held together, one thread recreated
TwoMessagesCorrelated ==
  /\ chatMessageMapping[TextMsgId(1)] = SourceMsgId(1)
  /\ chatMessageMapping[MediaMsgId(1)] = SourceMsgId(1)
  /\ chatMessageMapping[TextMsgId(2)] = SourceMsgId(2)
  /\ nextThread > 3

\* the places of a getOrCreateTopic call between its entry and its return
GocPcs == {"create1", "save1", "infoSend", "pin", "create2", "save2", "gocRet"}

\* C37: while no getOrCreateTopic call is in progress, the thread saved
\* last in the store for an identifier is the thread topicMapping holds for
\* it, if it holds one
StoreAgreesWithMapping ==
  (\A k \in Tasks : task[k].pc \notin GocPcs) =>
    \A i \in Idents :
      (topicMapping[i] # NoThread /\ store[i] # NoThread)
        => store[i] = topicMapping[i]

\* C38: the assignment of the loaded rows keeps every mapping that
\* getOrCreateTopic inserted before the load completed
LoadKeepsSessionMappings ==
  [][(loadPc = "pending" /\ loadPc' = "done") =>
       \A i \in Idents :
         topicMapping[i] # NoThread => topicMapping'[i] = topicMapping[i]]_vars

\* C39: handling one message of a tracked conversation thread issues at
\* most one send to the source network, and once a send has succeeded or
\* failed no further send is made for the message, whatever its payload
AtMostOneSourceSend ==
  [][/\ inbound'.class = "chat" => inbound'.waSends <= 1
     /\ (inbound.class = "chat" /\ inbound.acks # <<>>) =>
          inbound'.waSends = inbound.waSends]_vars

\* a photo whose send failed is acknowledged as failed and not sent again
FailedPhotoNotResent ==
  /\ inbound.class = "chat" /\ inbound.kind = "photo"
  /\ inbound.acks = <<"fail">> /\ inbound.waSends = 1
  /\ inbound.pc = "done"

\* C40: a message whose text starts with "/" is handled as a command and
\* causes no send to the source network, in a tracked conversation thread
\* too; nor does a message of a bot, of another chat or outside any thread
CommandsAreNotForwarded ==
  /\ (inbound.pc # "idle" /\ Len(inbound.text) > 0
      /\ inbound.text[1] = "/") =>
       (inbound.class = "command" /\ inbound.waSends = 0
        /\ inbound.pc \in {"cmdReply", "cmdError", "done"})
  /\ (inbound.fromBot \/ ~inbound.inGroup \/ inbound.thread = NoThread) =>
       inbound.waSends = 0

\* a command posted by a member in a tracked conversation thread, the
\* source client connected, has been handled
CommandInTrackedThread ==
  /\ inbound.pc = "done" /\ inbound.text = <<"/", "s">>
  /\ ~inbound.fromBot /\ inbound.inGroup /\ inbound.waUp
  /\ inbound.thread # NoThread
  /\ inbound.thread \notin {statusTopicId, callTopicId}
  /\ HasIdentifier(reverseTopicMapping[inbound.thread])
====
